---- MODULE Spec2Model ----
(***************************************************************************)
(* Local-first Todoist synchronisation engine of the Obsidoist plugin:     *)
(* the local state store, the pending-operation queue (coalescing, retry), *)
(* the Sync API adapter (flush, pull, temp-id mapping) and the shadow      *)
(* reconciliation of SyncManager.scanAndSyncFile.                          *)
(*                                                                         *)
(* Modelling conventions                                                   *)
(*  - a JS object used as a map is a TLA+ function whose DOMAIN is the set *)
(*    of its keys; `undefined` strings are the value Undefined, an         *)
(*    `undefined` number (nextRetryAt, lastRemoteSeenAt) is 0, which the   *)
(*    code itself treats as absent (`x && ...`);                           *)
(*  - the optional boolean isCompleted of a create op is FALSE when it is  *)
(*    undefined (the code only tests its truthiness);                      *)
(*  - id strings: the ids of LocalIdSeq start with "local-", the ids of    *)
(*    RemoteIds are numeric; uuids are modelled by positive integers drawn *)
(*    from a counter (createOperationId never repeats a value);            *)
(*  - updatedAt / isRecurring of a task record, the project records and    *)
(*    the diagnostic SyncStatus are not part of the modelled state.        *)
(***************************************************************************)
EXTENDS Integers, Sequences, FiniteSets, TLC

(* ------------------------------ bounds --------------------------------- *)
\* number of sync cycles, and of failures of one op, in the behaviours that follow an
\* op through its retries
MaxRetries == 12
\* number of calls that can hold the promise of one cycle
MaxAwaiting == 2
\* number of days that pass in a behaviour
MaxDays == 2
\* number of createTask calls in a behaviour (fresh temporary ids)
MaxCreates == 1
\* number of operation ids handed out to enqueue calls in a behaviour
MaxOpIds == 2
\* the same, in the behaviours without sync cycle (SpecQueue)
MaxQueueOps == 3
\* number of clock ticks in a behaviour
MaxTicks == 1
\* attempts after which a failing op is no longer failed by the modelled remote
MaxAttempts == 1
\* number of items in one response
MaxItems == 1
\* number of sync cycles in a behaviour
MaxSyncs == 2
\* number of task ids the remote hands out
MaxRemote == 1

(* --------------------------- value domains ----------------------------- *)
Undefined == "undefined"
LocalIdSeq == <<"local-1", "local-2", "local-3">>
LocalIds == {LocalIdSeq[i] : i \in 1..Len(LocalIdSeq)}
RemoteIdSeq == <<"1", "2", "3">>
RemoteIds == {RemoteIdSeq[i] : i \in 1..MaxRemote}
Ids == LocalIds \cup RemoteIds
Contents == {"a", "b"}
DueDates == {Undefined, "2026-01-01"}
ProjectIds == {"p1"}
NoToken == ""
BackoffBaseMs == 2000
BackoffCapMs == 30 * 60 * 1000
TickMs == BackoffBaseMs
DayMs == 24 * 60 * 60 * 1000
\* normalized filter queries
FilterSeq == <<"f1", "f2">>
Filters == {FilterSeq[i] : i \in 1..Len(FilterSeq)}
\* a line of the note as the SyncManager parses it: the id of its [todoist_id:...]
\* token (Undefined: none), whether it is a checkbox line, the signature it shows
BlankSig == [content |-> "", isCompleted |-> FALSE, projectId |-> Undefined, dueDate |-> Undefined]
Line(id, hasStatus, sig) ==
    [id |-> id, hasStatus |-> hasStatus, sig |-> IF hasStatus THEN sig ELSE BlankSig]
NoLine == Line(Undefined, FALSE, BlankSig)

VARIABLES
    tasksById,          \* localState.tasksById
    queue,              \* localState.queue (the array the store currently holds)
    idAliasMap,         \* localState.idAliasMap
    lineShadowById,     \* localState.lineShadowById
    syncToken,          \* localState.syncToken (NoToken when absent)
    lastFullSyncAt,     \* localState.lastFullSyncAt (0 when undefined)
    now,                \* Date.now()
    nextOpId,           \* next value createOperationId returns
    nextLocal,          \* index into LocalIdSeq of the next createLocalId value
    pc,                 \* position of the running sync cycle ("idle" when none)
    flushRef,           \* flush's local `queue` const: "none", "live" (is the store's array) or "stale"
    staleQueue,         \* content of the array `queue` refers to once it is stale
    flushNow,           \* flush's local `now` const
    commands,           \* commands of the pending flush request
    createdToComplete,  \* flush's local createdToComplete
    syncs,              \* number of sync cycles begun so far
    cycleFilter,        \* `normalized` of the running syncFilterNow cycle (Undefined: none, or syncNow)
    pendingFilterSync,  \* TodoistService.pendingFilterSync (Undefined when null)
    awaiting,           \* number of calls that were handed the promise of the running cycle
    filterResults,      \* localState.filterResults
    filterLastUsedAt,   \* localState.filterLastUsedAt
    note,               \* the line of the note the SyncManager reads and rewrites
    raw,                \* the snapshot the plugin's data file holds
    loaded,             \* what migrateLocalState made of it (NotLoaded before the load)
    remote,             \* the items the remote service holds, by id
    head,               \* the revision of the remote service
    applied,            \* the command uuids the remote service has applied
    inbox,              \* the answer of the remote service to the request in flight
    remoteEdits,        \* number of changes other clients made to the remote items
    jobs,               \* the jobs handed to SyncManager.enqueueSync, in the order of the calls
    direct,             \* position of a syncDown called without enqueueSync ("none" when none)
    idMappingUpdated    \* the last flush response handled triggered 'id-mapping-updated'

vars == <<tasksById, queue, idAliasMap, lineShadowById, syncToken, lastFullSyncAt, now, nextOpId,
          nextLocal, pc, flushRef, staleQueue, flushNow, commands, createdToComplete,
          syncs, cycleFilter, pendingFilterSync, awaiting, filterResults, filterLastUsedAt,
          note, raw, loaded, remote, head, applied, inbox, remoteEdits, jobs, direct, idMappingUpdated>>

storeVars == <<tasksById, queue, idAliasMap, lineShadowById, syncToken, lastFullSyncAt>>
flightVars == <<flushRef, staleQueue, flushNow, commands, createdToComplete>>
cacheVars == <<filterResults, filterLastUsedAt>>
cycleVars == <<cycleFilter, pendingFilterSync, awaiting>>
outerVars == <<raw, loaded, remote, head, applied, inbox, remoteEdits, jobs, direct, idMappingUpdated>>

(* ------------------------------ helpers -------------------------------- *)
Range(s) == {s[i] : i \in 1..Len(s)}
Put(m, k, v) == [x \in (DOMAIN m) \cup {k} |-> IF x = k THEN v ELSE m[x]]
Del(m, k) == [x \in (DOMAIN m) \ {k} |-> m[x]]
EmptyMap == [x \in {} |-> Undefined]
Min(a, b) == IF a < b THEN a ELSE b
Max(a, b) == IF a > b THEN a ELSE b
RECURSIVE Pow2(_)
Pow2(n) == IF n <= 0 THEN 1 ELSE 2 * Pow2(n - 1)

\* id.startsWith('local-')
IsLocalId(id) == id \in LocalIds

\* mutation of isUuid: no opId passes for a uuid
NeverUuid(opId) == FALSE

\* isUuid: every value of createOperationId is a uuid
isUuid(opId) == opId > 0

\* resolveId over an explicit alias map, and over the store
ResolveIn(alias, id) == IF id \in DOMAIN alias THEN alias[id] ELSE id
resolveId(id) == ResolveIn(idAliasMap, id)

(* ------------------------------ records -------------------------------- *)
\* a SyncOperation; `origin` is history only: the opId the op was built with
Op(type, opId, localId, id, content, projectId, dueDate, t) ==
    [type |-> type, opId |-> opId, origin |-> opId, localId |-> localId, id |-> id,
     content |-> content, projectId |-> projectId, dueDate |-> dueDate,
     isCompleted |-> FALSE, queuedAt |-> t, attempts |-> 0, nextRetryAt |-> 0,
     lastError |-> Undefined]

TaskRecord(id, content, isCompleted, projectId, dueDate, source, seen) ==
    [id |-> id, content |-> content, isCompleted |-> isCompleted,
     projectId |-> projectId, dueDate |-> dueDate, isDeleted |-> FALSE,
     source |-> source, lastRemoteSeenAt |-> seen]

\* the id an op refers to before alias resolution
OpRawTarget(op) == IF op.type = "create" THEN op.localId ELSE op.id
\* the canonical id an op refers to
TargetIn(alias, op) == ResolveIn(alias, OpRawTarget(op))

(* --------------------------- Queue manager ----------------------------- *)
\* greatest index of q satisfying Test, 0 when none
LastIndex(q, Test(_)) ==
    LET S == {i \in 1..Len(q) : Test(q[i])} IN
    IF S = {} THEN 0 ELSE CHOOSE i \in S : \A j \in S : j <= i
FirstIndex(q, Test(_)) ==
    LET S == {i \in 1..Len(q) : Test(q[i])} IN
    IF S = {} THEN 0 ELSE CHOOSE i \in S : \A j \in S : i <= j

\* mutation of FoldIntoCreate: an update leaves the dueDate of the create alone
FoldKeepsDueDate(existing, op) ==
    CASE op.type = "update" -> [existing EXCEPT !.content = op.content]
      [] op.type = "move" -> [existing EXCEPT !.projectId = op.projectId]
      [] op.type = "close" -> [existing EXCEPT !.isCompleted = TRUE]
      [] op.type = "reopen" -> [existing EXCEPT !.isCompleted = FALSE]

\* the fold of a later intent into a pending create (enqueue, first loop)
FoldIntoCreate(existing, op) ==
    CASE op.type = "update" -> [existing EXCEPT !.content = op.content, !.dueDate = op.dueDate]
      [] op.type = "move" -> [existing EXCEPT !.projectId = op.projectId]
      [] op.type = "close" -> [existing EXCEPT !.isCompleted = TRUE]
      [] op.type = "reopen" -> [existing EXCEPT !.isCompleted = FALSE]

\* mutation of SameKind: a close replaces only a close, a reopen only a reopen
SameType(type) == IF type = "create" THEN {} ELSE {type}

\* the kinds an op of this type replaces (enqueue, the three backward loops)
SameKind(type) ==
    CASE type = "update" -> {"update"}
      [] type = "move" -> {"move"}
      [] type \in {"close", "reopen"} -> {"close", "reopen"}
      [] OTHER -> {}

\* mutation of enqueue: an op that is not folded into a create is always appended
enqueueNoReplace(q, alias, op) ==
    LET canonicalId == ResolveIn(alias, op.id)
        IsCreateFor(e) == e.type = "create" /\ e.localId = canonicalId
        c == IF op.type # "create" /\ IsLocalId(canonicalId) THEN FirstIndex(q, IsCreateFor) ELSE 0
    IN  IF c > 0 THEN [q EXCEPT ![c] = FoldIntoCreate(q[c], op)]
        ELSE Append(q, op)

\* TodoistService.enqueue on the array q
enqueue(q, alias, op) ==
    LET canonicalId == ResolveIn(alias, op.id)
        IsCreateFor(e) == e.type = "create" /\ e.localId = canonicalId
        c == IF op.type # "create" /\ IsLocalId(canonicalId) THEN FirstIndex(q, IsCreateFor) ELSE 0
        IsPrev(e) == e.type \in SameKind(op.type)
                     /\ ResolveIn(alias, e.id) = ResolveIn(alias, op.id)
        p == LastIndex(q, IsPrev)
    IN  IF c > 0 THEN [q EXCEPT ![c] = FoldIntoCreate(q[c], op)]
        ELSE IF p > 0 THEN [q EXCEPT ![p] = op]
        ELSE Append(q, op)

\* hasPendingOpsForId over an explicit queue and alias map
HasPendingIn(q, alias, id) ==
    LET canonical == ResolveIn(alias, id) IN
    \E i \in 1..Len(q) :
        IF q[i].type = "create"
        THEN q[i].localId = canonical \/ q[i].localId = id
        ELSE ResolveIn(alias, q[i].id) = canonical
hasPendingOpsForId(id) == HasPendingIn(queue, idAliasMap, id)

(* ------------------------- service operations -------------------------- *)
\* ids a caller can name: remote ids and the temporary ids handed out so far
KnownIds == RemoteIds \cup {LocalIdSeq[i] : i \in 1..(nextLocal - 1)}

\* the part of the state the enqueuing calls of the service work on
Service == [tasksById |-> tasksById, queue |-> queue, nextOpId |-> nextOpId,
            nextLocal |-> nextLocal]

createTaskOn(s, content, projectId, dueDate) ==
    LET localId == LocalIdSeq[s.nextLocal] IN
    [tasksById |-> Put(s.tasksById, localId,
                       TaskRecord(localId, content, FALSE, projectId, dueDate, "local", 0)),
     queue |-> enqueue(s.queue, idAliasMap,
                       Op("create", s.nextOpId, localId, Undefined, content, projectId, dueDate, now)),
     nextOpId |-> s.nextOpId + 1,
     nextLocal |-> s.nextLocal + 1]

closeTaskOn(s, id) ==
    LET canonical == resolveId(id) IN
    [s EXCEPT !.tasksById = IF canonical \in DOMAIN @
                            THEN [@ EXCEPT ![canonical].isCompleted = TRUE] ELSE @,
              !.queue = enqueue(@, idAliasMap,
                        Op("close", s.nextOpId, Undefined, canonical, Undefined, Undefined, Undefined, now)),
              !.nextOpId = @ + 1]

reopenTaskOn(s, id) ==
    LET canonical == resolveId(id) IN
    [s EXCEPT !.tasksById = IF canonical \in DOMAIN @
                            THEN [@ EXCEPT ![canonical].isCompleted = FALSE] ELSE @,
              !.queue = enqueue(@, idAliasMap,
                        Op("reopen", s.nextOpId, Undefined, canonical, Undefined, Undefined, Undefined, now)),
              !.nextOpId = @ + 1]

updateTaskOn(s, id, content, dueDate) ==
    LET canonical == resolveId(id) IN
    [s EXCEPT !.tasksById = IF canonical \in DOMAIN @
                            THEN [@ EXCEPT ![canonical].content = content,
                                           ![canonical].dueDate = dueDate]
                            ELSE Put(@, canonical,
                                     TaskRecord(canonical, content, FALSE, Undefined, dueDate, "local", 0)),
              !.queue = enqueue(@, idAliasMap,
                        Op("update", s.nextOpId, Undefined, canonical, content, Undefined, dueDate, now)),
              !.nextOpId = @ + 1]

moveTaskOn(s, id, projectId) ==
    LET canonical == resolveId(id) IN
    [s EXCEPT !.tasksById = IF canonical \in DOMAIN @
                            THEN [@ EXCEPT ![canonical].projectId = projectId] ELSE @,
              !.queue = enqueue(@, idAliasMap,
                        Op("move", s.nextOpId, Undefined, canonical, Undefined, projectId, Undefined, now)),
              !.nextOpId = @ + 1]

\* the state after a call of the service that left s
Commit(s) ==
    /\ tasksById' = s.tasksById
    /\ queue' = s.queue
    /\ nextOpId' = s.nextOpId
    /\ nextLocal' = s.nextLocal

createTask(content, projectId, dueDate) ==
    /\ nextLocal <= MaxCreates
    /\ Commit(createTaskOn(Service, content, projectId, dueDate))
    /\ UNCHANGED <<idAliasMap, lineShadowById, syncToken, lastFullSyncAt, now, pc, flightVars, syncs,
                   cycleVars, cacheVars, note, outerVars>>

closeTask(id) ==
    /\ Commit(closeTaskOn(Service, id))
    /\ UNCHANGED <<idAliasMap, lineShadowById, syncToken, lastFullSyncAt, now, pc, flightVars, syncs,
                   cycleVars, cacheVars, note, outerVars>>

reopenTask(id) ==
    /\ Commit(reopenTaskOn(Service, id))
    /\ UNCHANGED <<idAliasMap, lineShadowById, syncToken, lastFullSyncAt, now, pc, flightVars, syncs,
                   cycleVars, cacheVars, note, outerVars>>

updateTask(id, content, dueDate) ==
    /\ Commit(updateTaskOn(Service, id, content, dueDate))
    /\ UNCHANGED <<idAliasMap, lineShadowById, syncToken, lastFullSyncAt, now, pc, flightVars, syncs,
                   cycleVars, cacheVars, note, outerVars>>

moveTask(id, projectId) ==
    /\ Commit(moveTaskOn(Service, id, projectId))
    /\ UNCHANGED <<idAliasMap, lineShadowById, syncToken, lastFullSyncAt, now, pc, flightVars, syncs,
                   cycleVars, cacheVars, note, outerVars>>

\* clearQueue replaces the store's array: a flush that holds the old array keeps it
clearQueue ==
    /\ queue # <<>>
    /\ queue' = <<>>
    /\ IF flushRef = "live"
       THEN flushRef' = "stale" /\ staleQueue' = queue
       ELSE UNCHANGED <<flushRef, staleQueue>>
    /\ UNCHANGED <<tasksById, idAliasMap, lineShadowById, syncToken, lastFullSyncAt, now,
                   nextOpId, nextLocal, pc, flushNow, commands, createdToComplete, syncs,
                   cycleVars, cacheVars, note, outerVars>>

\* op.nextRetryAt && op.nextRetryAt > now
InBackoff(op, t) == op.nextRetryAt # 0 /\ op.nextRetryAt > t

\* time passes while an op waits for its retry
Tick ==
    /\ now < (1 + MaxTicks) * TickMs
    /\ \E i \in 1..Len(queue) : InBackoff(queue[i], now)
    /\ now' = now + TickMs
    /\ UNCHANGED <<storeVars, nextOpId, nextLocal, pc, flightVars, syncs, cycleVars, cacheVars, note, outerVars>>

(* --------------------------- Sync API adapter -------------------------- *)
\* the SyncApiCommand built for a queued op (flushQueueToRemoteViaSyncApi, first loop)
CommandOf(op, alias) ==
    LET id == ResolveIn(alias, op.id) IN
    CASE op.type = "create" ->
            [type |-> "item_add", uuid |-> op.opId, origin |-> op.origin, temp_id |-> op.localId,
             id |-> Undefined, content |-> op.content, projectId |-> op.projectId,
             dueDate |-> op.dueDate]
      [] op.type = "update" ->
            [type |-> "item_update", uuid |-> op.opId, origin |-> op.origin, temp_id |-> Undefined,
             id |-> id, content |-> op.content, projectId |-> Undefined, dueDate |-> op.dueDate]
      [] op.type = "move" ->
            [type |-> "item_move", uuid |-> op.opId, origin |-> op.origin, temp_id |-> Undefined,
             id |-> id, content |-> Undefined, projectId |-> op.projectId, dueDate |-> Undefined]
      [] op.type = "close" ->
            [type |-> "item_close", uuid |-> op.opId, origin |-> op.origin, temp_id |-> Undefined,
             id |-> id, content |-> Undefined, projectId |-> Undefined, dueDate |-> Undefined]
      [] op.type = "reopen" ->
            [type |-> "item_uncomplete", uuid |-> op.opId, origin |-> op.origin, temp_id |-> Undefined,
             id |-> id, content |-> Undefined, projectId |-> Undefined, dueDate |-> Undefined]

\* mutation of NoCommand: an op on a temporary id without alias is submitted
SkipsBareMove(op, alias) == op.type = "move" /\ op.projectId = Undefined

\* the op is passed over although it is not in backoff: its target is a temporary id
\* without alias, or it is a move without project
NoCommand(op, alias) ==
    \/ /\ op.type # "create"
       /\ IsLocalId(ResolveIn(alias, op.id))
       /\ ResolveIn(alias, op.id) \notin DOMAIN alias
    \/ op.type = "move" /\ op.projectId = Undefined

\* the uuid a queued op is submitted under: its opId, replaced when it is no uuid
SubmitOpId(op, fresh) == IF isUuid(op.opId) THEN op.opId ELSE fresh

\* first loop of flushQueueToRemoteViaSyncApi over the array q from index i on;
\* acc = [queue: the ops as the loop leaves them, commands, created, nextOpId]
RECURSIVE BuildCommands(_, _, _, _, _)
BuildCommands(q, alias, t, i, acc) ==
    IF i > Len(q) THEN acc
    ELSE IF InBackoff(q[i], t)
    THEN BuildCommands(q, alias, t, i + 1, [acc EXCEPT !.queue = Append(@, q[i])])
    ELSE LET op == [q[i] EXCEPT !.opId = SubmitOpId(q[i], acc.nextOpId)]
             used == IF op.opId = q[i].opId THEN 0 ELSE 1
             send == ~NoCommand(op, alias)
         IN  BuildCommands(q, alias, t, i + 1,
                [queue |-> Append(acc.queue, op),
                 commands |-> IF send THEN Append(acc.commands, CommandOf(op, alias))
                              ELSE acc.commands,
                 created |-> IF op.type = "create" /\ op.isCompleted
                             THEN Append(acc.created, op.localId) ELSE acc.created,
                 nextOpId |-> acc.nextOpId + used])

\* mutation of MoveShadowIn: the shadow is copied to toId and stays under its old keys
ShadowCopied(shadow, alias, fromId, toId) ==
    IF fromId \in DOMAIN shadow THEN Put(shadow, toId, shadow[fromId]) ELSE shadow

\* moveLineShadow on an explicit shadow map
MoveShadowIn(shadow, alias, fromId, toId) ==
    LET resolvedFrom == ResolveIn(alias, fromId)
        candidates == IF resolvedFrom # fromId THEN <<fromId, resolvedFrom>> ELSE <<fromId>>
        InShadow(k) == k \in DOMAIN shadow
        f == FirstIndex(candidates, InShadow)
        dropped == {candidates[j] : j \in 1..Len(candidates)} \ {toId}
    IN  IF fromId = toId \/ f = 0 THEN shadow
        ELSE Put([k \in (DOMAIN shadow) \ dropped |-> shadow[k]], toId, shadow[candidates[f]])

\* ids.map(x => (x === localId ? newId : x)) for every cached filter
RenameInFilters(results, localId, newId) ==
    [f \in DOMAIN results |->
        [i \in 1..Len(results[f]) |-> IF results[f][i] = localId THEN newId ELSE results[f][i]]]

\* mutation of ApplyOneMapping: the alias is recorded, the task record stays under
\* its local id
AliasOnly(st, localId, newId) ==
    [tasksById |-> st.tasksById, idAliasMap |-> Put(st.idAliasMap, localId, newId),
     lineShadowById |-> st.lineShadowById, filterResults |-> st.filterResults]

\* mutation of ApplyOneMapping: the alias is recorded in both directions
AliasBothWays(st, localId, newId) ==
    [tasksById |-> st.tasksById,
     idAliasMap |-> Put(Put(st.idAliasMap, localId, newId), newId, localId),
     lineShadowById |-> st.lineShadowById, filterResults |-> st.filterResults]

\* one entry of applySyncApiTempIdMapping;
\* st = [tasksById, idAliasMap, lineShadowById, filterResults]
ApplyOneMapping(st, localId, newId) ==
    LET alias1 == Put(st.idAliasMap, localId, newId)
        shadow1 == MoveShadowIn(st.lineShadowById, alias1, localId, newId)
        relocate == localId \in DOMAIN st.tasksById /\ newId \notin DOMAIN st.tasksById
        tasks1 == IF relocate
                  THEN Put(Del(st.tasksById, localId), newId,
                           [st.tasksById[localId] EXCEPT !.id = newId])
                  ELSE st.tasksById
    IN  [tasksById |-> tasks1, idAliasMap |-> alias1, lineShadowById |-> shadow1,
         filterResults |-> RenameInFilters(st.filterResults, localId, newId)]

\* applySyncApiTempIdMapping: the entries are applied in the order of LocalIdSeq
RECURSIVE ApplyMappingFrom(_, _, _)
ApplyMappingFrom(st, mapping, i) ==
    IF i > Len(LocalIdSeq) THEN st
    ELSE IF LocalIdSeq[i] \in DOMAIN mapping
    THEN ApplyMappingFrom(ApplyOneMapping(st, LocalIdSeq[i], mapping[LocalIdSeq[i]]), mapping, i + 1)
    ELSE ApplyMappingFrom(st, mapping, i + 1)
applySyncApiTempIdMapping(st, mapping) == ApplyMappingFrom(st, mapping, 1)

\* the ops a tombstone for id leaves in the queue (applySyncApiItems, the filter)
SurvivesTombstone(op, alias, id) ==
    IF op.type = "create" THEN op.localId # id ELSE ResolveIn(alias, op.id) # id

PurgeQueue(q, alias, id) ==
    LET Keep(op) == SurvivesTombstone(op, alias, id) IN SelectSeq(q, Keep)

\* the record an item overwrites a cached record with (applySyncApiItems, lines 825-832)
OverwriteRecord(local, it, t) ==
    [local EXCEPT !.content = it.content, !.isCompleted = it.checked,
                  !.projectId = it.project_id, !.dueDate = it.due, !.isDeleted = FALSE,
                  !.source = "remote", !.lastRemoteSeenAt = t]

\* one iteration of applySyncApiItems; st = [tasksById, queue, reassigned], where
\* reassigned says that localState.queue has been replaced by a new array
ApplyItem(st, alias, it, t) ==
    LET id == it.id
        hasPending == HasPendingIn(st.queue, alias, id)
        cached == id \in DOMAIN st.tasksById
    IN  IF it.is_deleted
        THEN IF cached
             THEN [tasksById |-> [st.tasksById EXCEPT ![id].isDeleted = TRUE,
                                     ![id].isCompleted = TRUE, ![id].source = "remote",
                                     ![id].lastRemoteSeenAt = t],
                   queue |-> PurgeQueue(st.queue, alias, id),
                   reassigned |-> TRUE]
             ELSE st
        ELSE IF ~cached
        THEN [st EXCEPT !.tasksById = Put(@, id,
                TaskRecord(id, it.content, it.checked, it.project_id, it.due, "remote", t))]
        ELSE IF hasPending
        THEN [st EXCEPT !.tasksById[id].lastRemoteSeenAt = t]
        ELSE [st EXCEPT !.tasksById[id] = OverwriteRecord(@, it, t)]

RECURSIVE ApplyItemsFrom(_, _, _, _, _)
ApplyItemsFrom(st, alias, items, t, i) ==
    IF i > Len(items) THEN st
    ELSE ApplyItemsFrom(ApplyItem(st, alias, items[i], t), alias, items, t, i + 1)
applySyncApiItems(tasks, q, alias, items, t) ==
    ApplyItemsFrom([tasksById |-> tasks, queue |-> q, reassigned |-> FALSE], alias, items, t, 1)

\* itemsById of flushQueueToRemoteViaSyncApi: the index of the last item of each id,
\* 0 when the response holds no item of that id
ItemIndex(items, id) ==
    LET HasId(it) == it.id = id IN LastIndex(items, HasId)

\* mutation of BackoffDelay: the delay does not grow with the attempts
FlatDelay(attempts) == BackoffBaseMs
\* mutation of BackoffDelay: the delay is not capped
UncappedDelay(attempts) == BackoffBaseMs * Pow2(IF attempts > 1 THEN attempts - 1 ELSE 0)

\* Math.min(30 * 60 * 1000, 2000 * Math.pow(2, Math.max(0, attempts - 1)))
BackoffDelay(attempts) == Min(BackoffCapMs, BackoffBaseMs * Pow2(Max(0, attempts - 1)))

\* the op after a failure or an unconfirmed completion
Failed(op, err, t) ==
    [op EXCEPT !.attempts = op.attempts + 1, !.lastError = err,
               !.nextRetryAt = t + BackoffDelay(op.attempts + 1)]

\* mutation of Confirmed: the ok status is taken for the confirmation
ConfirmedByStatus(op, alias, items) == TRUE

\* a close / reopen reported ok is confirmed by the item of its target in the response
Confirmed(op, alias, items) ==
    LET k == ItemIndex(items, ResolveIn(alias, op.id)) IN
    IF k = 0 THEN FALSE
    ELSE (items[k].checked = TRUE) = (op.type = "close")

\* status loop of flushQueueToRemoteViaSyncApi for one op of the captured array:
\* [op: the op as the loop leaves it, removed: whether it is spliced out]
StatusOutcome(op, status, alias, items, t) ==
    IF op.opId \notin DOMAIN status THEN [op |-> op, removed |-> FALSE]
    ELSE IF status[op.opId] = "ok"
    THEN IF op.type \in {"close", "reopen"} /\ ~Confirmed(op, alias, items)
         THEN [op |-> Failed(op, "not confirmed", t), removed |-> FALSE]
         ELSE [op |-> op, removed |-> TRUE]
    ELSE [op |-> Failed(op, "failed", t), removed |-> FALSE]

StatusLoop(capt, status, alias, items, t) ==
    [i \in 1..Len(capt) |-> StatusOutcome(capt[i], status, alias, items, t)]

Kept(entries) ==
    LET IsKept(e) == ~e.removed
        kept == SelectSeq(entries, IsKept)
    IN  [i \in 1..Len(kept) |-> kept[i].op]

\* the store's queue after the status loop. The loop splices the array captured when
\* the flush began; ops are objects shared by every array that holds them.
\*  - the captured array is still the store's array: the loop's result;
\*  - the response's tombstones replaced the store's array by a filtered copy:
\*    the copy keeps every op it holds, as the loop mutated it;
\*  - clearQueue replaced the store's array during the flush: the loop does not
\*    touch the store's queue.
QueueAfterLoop(live, reassigned, storeQueue, entries) ==
    IF ~live THEN storeQueue
    ELSE IF ~reassigned THEN Kept(entries)
    ELSE LET InStore(e) == \E j \in 1..Len(storeQueue) : storeQueue[j].opId = e.op.opId
             held == SelectSeq(entries, InStore)
         IN  [i \in 1..Len(held) |-> held[i].op]

\* the ids the second request completes: the aliases of the created-completed local ids
CompleteIds(created, alias) ==
    LET Mapped(l) == l \in DOMAIN alias
        m == SelectSeq(created, Mapped)
    IN  [i \in 1..Len(m) |-> alias[m[i]]]

(* ----------------------------- responses ------------------------------- *)
Tokens == {"t1"}
PartialFns(S, T) == UNION {[D -> T] : D \in SUBSET S}

\* the values a remote item carries besides its id
ItemShapes ==
    {[content |-> "a", checked |-> FALSE, project_id |-> Undefined, due |-> Undefined],
     [content |-> "b", checked |-> TRUE, project_id |-> "p1", due |-> "2026-01-01"]}
Tombstone(id) ==
    [id |-> id, is_deleted |-> TRUE, content |-> "a", checked |-> FALSE,
     project_id |-> Undefined, due |-> Undefined]
LiveItem(id, s) ==
    [id |-> id, is_deleted |-> FALSE, content |-> s.content, checked |-> s.checked,
     project_id |-> s.project_id, due |-> s.due]
Items == {Tombstone(id) : id \in RemoteIds}
         \cup {LiveItem(id, s) : id \in RemoteIds, s \in ItemShapes}
ItemLists == UNION {[1..n -> Items] : n \in 0..MaxItems}

CommandUuids(cmds) == {cmds[i].uuid : i \in 1..Len(cmds)}
CommandTempIds(cmds) == {cmds[i].temp_id : i \in {j \in 1..Len(cmds) : cmds[j].type = "item_add"}}

\* the responses to a flush request: a status for any of its commands, a mapping
\* for any of the temporary ids it created, any items
FlushResponses(cmds) ==
    [sync_token : Tokens,
     sync_status : PartialFns(CommandUuids(cmds), {"ok", "error"}),
     temp_id_mapping : PartialFns(CommandTempIds(cmds), RemoteIds),
     items : ItemLists]
PullResponses == [sync_token : Tokens, items : ItemLists]

(* ------------------------------ sync cycle ----------------------------- *)
EmptyAcc == [queue |-> <<>>, commands |-> <<>>, created |-> <<>>, nextOpId |-> nextOpId]

\* the array the running flush holds in its local `queue`
CapturedQueue == IF flushRef = "live" THEN queue ELSE staleQueue

\* flushQueueToRemoteViaSyncApi from its first loop to its request: the commands are
\* built from the captured array; with none the flush returns and the pull is sent
BuildAndSend(capt, live, t) ==
    LET b == BuildCommands(capt, idAliasMap, t, 1, EmptyAcc)
        none == b.commands = <<>>
    IN  /\ nextOpId' = b.nextOpId
        /\ queue' = IF live THEN b.queue ELSE queue
        /\ staleQueue' = IF live \/ none THEN <<>> ELSE b.queue
        /\ flushRef' = IF none THEN "none" ELSE IF live THEN "live" ELSE "stale"
        /\ commands' = b.commands
        /\ createdToComplete' = IF none THEN <<>> ELSE b.created
        /\ flushNow' = IF none THEN 0 ELSE t
        /\ pc' = IF none THEN "pull" ELSE "flush"

\* mutation of FlushStart: the cycle sends its pull request without flushing the queue
PullFirst(tok) ==
    /\ syncToken' = IF tok # NoToken THEN tok ELSE syncToken
    /\ pc' = "pull"
    /\ UNCHANGED <<queue, nextOpId, flightVars>>
    /\ UNCHANGED <<tasksById, idAliasMap, lineShadowById, lastFullSyncAt, now, nextLocal>>

\* syncNow through getProjects (tok = NoToken: the projects come from the cache, or
\* their request failed) and flushQueueToRemoteViaSyncApi up to its first request
FlushStart(tok) ==
    /\ LET token == IF tok # NoToken THEN tok ELSE syncToken IN
        /\ syncToken' = token
        /\ IF queue = <<>>
           THEN /\ pc' = "pull"
                /\ UNCHANGED <<queue, nextOpId, flightVars>>
           ELSE IF token # NoToken
           THEN BuildAndSend(queue, TRUE, now)
           ELSE /\ pc' = "token"
                /\ flushRef' = "live"
                /\ flushNow' = now
                /\ UNCHANGED <<queue, nextOpId, staleQueue, commands, createdToComplete>>
    /\ UNCHANGED <<tasksById, idAliasMap, lineShadowById, lastFullSyncAt, now, nextLocal>>
\* a cycle begins: one more cycle has begun
BeginCycle(tok) ==
    /\ syncs' = syncs + 1
    /\ FlushStart(tok)
\* syncNow called while no cycle is in flight, in a behaviour of at most n cycles
StartSync(tok, n) ==
    /\ pc = "idle"
    /\ syncs < n
    /\ BeginCycle(tok)
    /\ UNCHANGED <<cycleVars, cacheVars, note, outerVars>>
syncNow(tok) == StartSync(tok, MaxSyncs)

\* ensureSyncToken's request has been answered; the commands are built
TokenDone(tok) ==
    /\ pc = "token"
    /\ syncToken' = tok
    /\ BuildAndSend(CapturedQueue, flushRef = "live", flushNow)
    /\ UNCHANGED <<tasksById, idAliasMap, lineShadowById, lastFullSyncAt, now, nextLocal, syncs,
                   cycleVars, cacheVars, note, outerVars>>

(* ------------------------------ filter cache --------------------------- *)
\* filterLastUsedAt is the sequence of its entries [filter, at] in the order in which
\* the keys were inserted (the order of Object.entries)
UsedKeys(used) == {used[i].filter : i \in 1..Len(used)}
UsedAt(used, f) ==
    LET i == CHOOSE j \in 1..Len(used) : used[j].filter = f IN used[i].at

\* filterLastUsedAt[f] = t
SetUsed(used, f, t) ==
    IF f \in UsedKeys(used)
    THEN [i \in 1..Len(used) |-> IF used[i].filter = f THEN [filter |-> f, at |-> t] ELSE used[i]]
    ELSE Append(used, [filter |-> f, at |-> t])

\* delete filterLastUsedAt[f] for every f of gone
DropUsed(used, gone) ==
    LET Stays(e) == e.filter \notin gone IN SelectSeq(used, Stays)

\* delete filterResults[f] for every f of gone
DropResults(results, gone) == [f \in (DOMAIN results) \ gone |-> results[f]]

\* filterEntries.sort((a, b) => b[1] - a[1]): the position of entry i after the
\* (stable) sort by descending time
SortedRank(used, i) ==
    Cardinality({j \in 1..Len(used) :
        used[j].at > used[i].at \/ (used[j].at = used[i].at /\ j < i)}) + 1

\* new Set(filterEntries.slice(0, keep).map(([k]) => k))
Allowed(used, keep) == {used[i].filter : i \in {j \in 1..Len(used) : SortedRank(used, j) <= keep}}

\* the filters the age rule of pruneCache deletes (lines 254-260)
Expired(used, t, retentionDays) ==
    LET cutoff == t - Max(0, retentionDays) * DayMs
    IN  {used[i].filter : i \in {j \in 1..Len(used) : ~(used[j].at >= cutoff)}}

\* pruneCache({completedRetentionDays, maxFilterCacheEntries}) at time t
pruneCache(results, used, t, retentionDays, maxEntries) ==
    LET expired == Expired(used, t, retentionDays)
        results1 == DropResults(results, expired)
        used1 == DropUsed(used, expired)
        allowed == Allowed(used1, Max(0, maxEntries))
        dropped == (DOMAIN results1) \ allowed
    IN  [filterResults |-> DropResults(results1, dropped),
         filterLastUsedAt |-> DropUsed(used1, dropped)]

\* the cache policies of the settings
Retentions == {0, 1}
Maxima == {0, 1, 2}

(* ------------------------------ cycle end ------------------------------ *)
\* mutation of InFlight: the guard of the single flight is never taken
NeverInFlight == FALSE

\* this.syncInFlight !== null
InFlight == pc # "idle"

\* the .finally of syncNow (lines 650-659) and of syncFilterNow (lines 704-713): the
\* promise of the cycle settles and a pending filter starts the next cycle
Finally ==
    LET pending == pendingFilterSync
        again == IF cycleFilter = Undefined THEN pending # Undefined
                 ELSE pending # Undefined /\ pending # cycleFilter
    IN  /\ pendingFilterSync' = Undefined
        /\ awaiting' = 0
        /\ pc' = IF again THEN "next" ELSE "idle"
        /\ cycleFilter' = IF again THEN pending ELSE Undefined

\* maybePruneCache on the cache (results, used): the cache is pruned under the policy
\* of the settings unless it was pruned in the last 12 hours (status.lastPruneAt is
\* not part of the modelled state: both outcomes are possible)
PruneOutcomes(results, used) ==
    {[filterResults |-> results, filterLastUsedAt |-> used]}
    \cup {pruneCache(results, used, now, R, M) : R \in Retentions, M \in Maxima}

\* the cycle ends without error: maybePruneCache, then the .finally
CycleSucceeds(results, used) ==
    /\ \E c \in PruneOutcomes(results, used) :
          /\ filterResults' = c.filterResults
          /\ filterLastUsedAt' = c.filterLastUsedAt
    /\ Finally

\* mutation of FlushRequestFails: the ops of the failed request are dropped
FailureDropsQueue ==
    /\ pc \in {"token", "flush", "flush2"}
    /\ Finally
    /\ queue' = <<>>
    /\ flushRef' = "none"
    /\ staleQueue' = <<>>
    /\ flushNow' = 0
    /\ commands' = <<>>
    /\ createdToComplete' = <<>>
    /\ UNCHANGED <<tasksById, idAliasMap, lineShadowById, syncToken, lastFullSyncAt, cacheVars,
                   now, nextOpId, nextLocal, syncs, note, outerVars>>

\* a request of the flush throws (transport error, non-2xx): syncNow's catch and
\* finally end the cycle
FlushRequestFails ==
    /\ pc \in {"token", "flush", "flush2"}
    /\ Finally
    /\ UNCHANGED cacheVars
    /\ flushRef' = "none"
    /\ staleQueue' = <<>>
    /\ flushNow' = 0
    /\ commands' = <<>>
    /\ createdToComplete' = <<>>
    /\ UNCHANGED <<storeVars, now, nextOpId, nextLocal, syncs, note, outerVars>>

\* the commands of the second request: one item_close, under a fresh uuid, for each id
CompleteCommands(ids) ==
    [i \in 1..Len(ids) |->
        [type |-> "item_close", uuid |-> 0 - i, origin |-> 0 - i, temp_id |-> Undefined,
         id |-> ids[i], content |-> Undefined, projectId |-> Undefined, dueDate |-> Undefined]]

\* didChange of applySyncApiTempIdMapping: the loop over the entries of the mapping
\* ran at least once; 'id-mapping-updated' is triggered if so
didChange(mapping) == DOMAIN mapping # {}

\* the store after the response r of the flush request has been handled:
\* lines 986-1061 of flushQueueToRemoteViaSyncApi
FlushResult(r) ==
    LET m == applySyncApiTempIdMapping(
                 [tasksById |-> tasksById, idAliasMap |-> idAliasMap,
                  lineShadowById |-> lineShadowById, filterResults |-> filterResults],
                 r.temp_id_mapping)
        a == applySyncApiItems(m.tasksById, queue, m.idAliasMap, r.items, now)
        entries == StatusLoop(CapturedQueue, r.sync_status, m.idAliasMap, r.items, now)
    IN  [tasksById |-> a.tasksById, idAliasMap |-> m.idAliasMap,
         lineShadowById |-> m.lineShadowById, filterResults |-> m.filterResults,
         queue |-> QueueAfterLoop(flushRef = "live", a.reassigned, a.queue, entries),
         entries |-> entries,
         ids |-> CompleteIds(createdToComplete, m.idAliasMap)]

\* the response r of the flush request arrives: flushQueueToRemoteViaSyncApi from
\* there to its second request, or to its end and to the pull request of
\* refreshFromRemoteViaSyncApi
FlushResponseWithin(r, n) ==
    /\ pc = "flush"
    /\ LET f == FlushResult(r) IN
        /\ \A i \in 1..Len(f.entries) : f.entries[i].op.attempts <= n
        /\ syncToken' = r.sync_token
        /\ lastFullSyncAt' = now
        /\ tasksById' = f.tasksById
        /\ idAliasMap' = f.idAliasMap
        /\ lineShadowById' = f.lineShadowById
        /\ filterResults' = f.filterResults
        /\ queue' = f.queue
        /\ commands' = CompleteCommands(f.ids)
        /\ pc' = IF f.ids # <<>> THEN "flush2" ELSE "pull"
    /\ flushRef' = "none"
    /\ staleQueue' = <<>>
    /\ flushNow' = 0
    /\ createdToComplete' = <<>>
    /\ idMappingUpdated' = didChange(r.temp_id_mapping)
    /\ UNCHANGED <<now, nextOpId, nextLocal, syncs, cycleVars, filterLastUsedAt, note, raw, loaded,
                   remote, head, applied, inbox, remoteEdits, jobs, direct>>
FlushResponse(r) == FlushResponseWithin(r, MaxAttempts)

\* the time of the earliest retry of the queued ops in backoff
NextRetry ==
    LET S == {queue[i].nextRetryAt : i \in {j \in 1..Len(queue) : InBackoff(queue[j], now)}}
    IN  CHOOSE t \in S : \A u \in S : t <= u

\* time passes until the first op in backoff can be retried
AwaitRetry ==
    /\ \E i \in 1..Len(queue) : InBackoff(queue[i], now)
    /\ now' = NextRetry
    /\ UNCHANGED <<storeVars, nextOpId, nextLocal, pc, flightVars, syncs, cycleVars, cacheVars, note, outerVars>>

\* the second request is answered: its items are applied, the flush returns and
\* refreshFromRemoteViaSyncApi sends the pull request
Flush2Response(tok, items) ==
    /\ pc = "flush2"
    /\ LET a == applySyncApiItems(tasksById, queue, idAliasMap, items, now) IN
        /\ tasksById' = a.tasksById
        /\ queue' = a.queue
    /\ syncToken' = tok
    /\ lastFullSyncAt' = now
    /\ commands' = <<>>
    /\ pc' = "pull"
    /\ UNCHANGED <<idAliasMap, lineShadowById, now, nextOpId, nextLocal, flushRef, staleQueue,
                   flushNow, createdToComplete, syncs, cycleVars, cacheVars, note, outerVars>>

\* refreshFromRemoteViaSyncApi handles the response r of the pull; a syncNow cycle
\* ends, a syncFilterNow cycle sends the request of refreshFilterIdsViaRest
PullResponse(r) ==
    /\ pc = "pull"
    /\ LET a == applySyncApiItems(tasksById, queue, idAliasMap, r.items, now) IN
        /\ tasksById' = a.tasksById
        /\ queue' = a.queue
    /\ syncToken' = r.sync_token
    /\ lastFullSyncAt' = now
    /\ IF cycleFilter = Undefined
       THEN CycleSucceeds(filterResults, filterLastUsedAt)
       ELSE pc' = "filter" /\ UNCHANGED <<cycleVars, cacheVars>>
    /\ UNCHANGED <<idAliasMap, lineShadowById, now, nextOpId, nextLocal, flightVars, syncs, note, outerVars>>

\* the pull request fails: the error is recorded and the cycle ends
PullFails ==
    /\ pc = "pull"
    /\ Finally
    /\ UNCHANGED <<storeVars, now, nextOpId, nextLocal, flightVars, syncs, cacheVars, note, outerVars>>

(* --------------------------- filter cycles ----------------------------- *)
\* a call of syncNow while a cycle is in flight is handed the promise of that cycle
syncNowWhileRunning ==
    /\ InFlight
    /\ awaiting < MaxAwaiting
    /\ awaiting' = awaiting + 1
    /\ UNCHANGED <<storeVars, now, nextOpId, nextLocal, pc, flightVars, syncs, cycleFilter,
                   pendingFilterSync, cacheVars, note, outerVars>>

\* syncFilterNow(f) for a non-empty filter: with a cycle in flight the filter is
\* recorded as pending and the call is handed the promise of that cycle; otherwise a
\* cycle scoped to f begins (tok as in syncNow)
syncFilterNow(f, tok) ==
    /\ syncs < MaxSyncs
    /\ IF InFlight
       THEN /\ awaiting < MaxAwaiting
            /\ pendingFilterSync' = f
            /\ awaiting' = awaiting + 1
            /\ UNCHANGED <<storeVars, now, nextOpId, nextLocal, pc, flightVars, syncs,
                           cycleFilter, cacheVars, note, outerVars>>
       ELSE /\ BeginCycle(tok)
            /\ cycleFilter' = f
            /\ UNCHANGED <<pendingFilterSync, awaiting, cacheVars, note, outerVars>>

\* the cycle the .finally started for the pending filter: syncFilterNow(pending)
\* through getProjects up to the flush's first request
FollowUp(tok) ==
    /\ pc = "next"
    /\ BeginCycle(tok)
    /\ UNCHANGED <<cycleVars, cacheVars, note, outerVars>>

\* the tasks a REST query for a filter returns
FilterTasks == UNION {[1..n -> {LiveItem(id, sh) : id \in RemoteIds, sh \in ItemShapes}] : n \in 0..MaxItems}

\* one iteration of the loop of refreshFilterIdsViaRest over the returned tasks
ApplyFilterTask(tasks, task, t) ==
    IF task.id \notin DOMAIN tasks
    THEN Put(tasks, task.id,
             TaskRecord(task.id, task.content, FALSE, task.project_id, task.due, "remote", t))
    ELSE IF hasPendingOpsForId(task.id)
    THEN [tasks EXCEPT ![task.id].lastRemoteSeenAt = t]
    ELSE [tasks EXCEPT ![task.id].lastRemoteSeenAt = t, ![task.id].content = task.content,
                       ![task.id].projectId = task.project_id, ![task.id].dueDate = task.due,
                       ![task.id].source = "remote"]

RECURSIVE ApplyFilterTasksFrom(_, _, _, _)
ApplyFilterTasksFrom(tasks, list, t, i) ==
    IF i > Len(list) THEN tasks
    ELSE ApplyFilterTasksFrom(ApplyFilterTask(tasks, list[i], t), list, t, i + 1)

\* refreshFilterIdsViaRest handles the tasks of the query for the filter of the
\* cycle; the cycle ends
FilterResponse(list) ==
    /\ pc = "filter"
    /\ tasksById' = ApplyFilterTasksFrom(tasksById, list, now, 1)
    /\ CycleSucceeds(Put(filterResults, cycleFilter, [i \in 1..Len(list) |-> list[i].id]),
                     SetUsed(filterLastUsedAt, cycleFilter, now))
    /\ UNCHANGED <<queue, idAliasMap, lineShadowById, syncToken, lastFullSyncAt, now, nextOpId,
                   nextLocal, flightVars, syncs, note, outerVars>>

\* the query fails: refreshFilterIdsViaRest catches the error and returns; the cycle
\* ends without error
FilterFails ==
    /\ pc = "filter"
    /\ CycleSucceeds(filterResults, filterLastUsedAt)
    /\ UNCHANGED <<storeVars, now, nextOpId, nextLocal, flightVars, syncs, note, outerVars>>

\* getTasks(f) for a non-empty filter: the filter is marked as used now, the cached
\* result (or nothing) is returned
getTasks(f) ==
    /\ filterLastUsedAt' = SetUsed(filterLastUsedAt, f, now)
    /\ UNCHANGED <<storeVars, now, nextOpId, nextLocal, pc, flightVars, syncs, cycleVars,
                   filterResults, note, outerVars>>

\* the button "Prune filter cache" of the settings: pruneCache under the policy
\* (retentionDays, maxEntries) of the settings
PruneNow(retentionDays, maxEntries) ==
    /\ LET c == pruneCache(filterResults, filterLastUsedAt, now, retentionDays, maxEntries) IN
        /\ filterResults' = c.filterResults
        /\ filterLastUsedAt' = c.filterLastUsedAt
    /\ UNCHANGED <<storeVars, now, nextOpId, nextLocal, pc, flightVars, syncs, cycleVars, note, outerVars>>

\* a day passes
Sleep ==
    /\ now < TickMs + MaxDays * DayMs
    /\ now' = now + DayMs
    /\ UNCHANGED <<storeVars, nextOpId, nextLocal, pc, flightVars, syncs, cycleVars, cacheVars, note, outerVars>>

(* --------------------------- persisted snapshot ------------------------ *)
\* The raw snapshot migrateLocalState is given. kind: what JSON value it is; for an
\* object, schemaVersion (0: absent), what each map container holds and what queue
\* holds. A container is absent, a string, an array, or an object ("object" stands
\* for one map with entries; the array queue holds RawOps)
MapNames == {"tasksById", "projectsById", "idAliasMap", "filterResults", "filterLastUsedAt",
             "status", "lineShadowById"}
ContainerKinds == {"absent", "string", "array", "object"}
\* the opId of an op persisted by an earlier session (a uuid)
PersistedOpId == 100
\* a queue array of a snapshot: a well-formed op, an entry of unknown type and an op
\* of an old version (opId not a uuid, attempts and queuedAt missing: -1)
GoodOp == Op("close", PersistedOpId, Undefined, "1", Undefined, Undefined, Undefined, TickMs)
RawOps ==
    <<GoodOp,
      [GoodOp EXCEPT !.type = "junk"],
      [GoodOp EXCEPT !.opId = 0, !.origin = 0, !.attempts = -1, !.queuedAt = -1]>>
NoSnapshot == [kind |-> "null", schemaVersion |-> 0, maps |-> [m \in MapNames |-> "absent"],
               queue |-> "absent"]
RawSnapshots ==
    {NoSnapshot, [NoSnapshot EXCEPT !.kind = "number"]}
    \cup [kind : {"object"}, schemaVersion : {0, 2}, maps : [MapNames -> ContainerKinds],
          queue : ContainerKinds]
NotLoaded == [schemaVersion |-> 0, maps |-> [m \in MapNames |-> "absent"],
              queue |-> [kind |-> "absent", ops |-> <<>>]]

\* createDefaultLocalState
createDefaultLocalState ==
    [schemaVersion |-> 2, maps |-> [m \in MapNames |-> "empty"],
     queue |-> [kind |-> "array", ops |-> <<>>]]

\* the op migrateLocalState makes of the entry op of a raw queue (the callback of
\* queueRaw.map, for an entry of a known type); fresh is the value of
\* createOperationId, t of Date.now()
MigrateOp(op, fresh, t) ==
    [op EXCEPT !.opId = IF isUuid(op.opId) THEN op.opId ELSE fresh,
               !.origin = IF isUuid(op.opId) THEN op.opId ELSE fresh,
               !.attempts = IF op.attempts >= 0 THEN op.attempts ELSE 0,
               !.queuedAt = IF op.queuedAt >= 0 THEN op.queuedAt ELSE t]

\* queueRaw.map(...).filter(Boolean), from entry i on
RECURSIVE MigrateOpsFrom(_, _, _, _)
MigrateOpsFrom(ops, i, fresh, t) ==
    IF i > Len(ops) THEN <<>>
    ELSE IF ops[i].type \notin {"create", "move", "update", "close", "reopen"}
    THEN MigrateOpsFrom(ops, i + 1, fresh, t)
    ELSE <<MigrateOp(ops[i], fresh, t)>>
         \o MigrateOpsFrom(ops, i + 1, IF isUuid(ops[i].opId) THEN fresh ELSE fresh + 1, t)

\* state.x && typeof state.x === 'object'
IsObjectValue(kind) == kind \in {"array", "object"}

\* migrateLocalState(r)
migrateLocalState(r, fresh, t) ==
    IF r.kind # "object" THEN createDefaultLocalState
    ELSE IF r.schemaVersion = 2
    THEN [schemaVersion |-> 2,
          maps |-> [m \in MapNames |->
                      IF m = "lineShadowById" /\ ~IsObjectValue(r.maps[m]) THEN "empty"
                      ELSE r.maps[m]],
          queue |-> [kind |-> r.queue, ops |-> IF r.queue = "array" THEN RawOps ELSE <<>>]]
    ELSE [schemaVersion |-> 2,
          maps |-> [m \in MapNames |-> IF IsObjectValue(r.maps[m]) THEN r.maps[m] ELSE "empty"],
          queue |-> [kind |-> "array",
                     ops |-> IF r.queue = "array" THEN MigrateOpsFrom(RawOps, 1, fresh, t)
                             ELSE <<>>]]

\* the plugin loads its data file: loadPluginData hands the stored local state to
\* migrateLocalState
loadPluginData ==
    /\ loaded = NotLoaded
    /\ loaded' = migrateLocalState(raw, nextOpId, now)
    /\ UNCHANGED <<storeVars, now, nextOpId, nextLocal, pc, flightVars, syncs, cycleVars, cacheVars,
                   note, raw, remote, head, applied, inbox, remoteEdits, jobs, direct, idMappingUpdated>>

(* ------------------------------- Init ---------------------------------- *)
\* the service and the note after construction
InitService ==
    /\ tasksById = EmptyMap
    /\ queue = <<>>
    /\ idAliasMap = EmptyMap
    /\ lineShadowById = EmptyMap
    /\ syncToken = NoToken
    /\ lastFullSyncAt = 0
    /\ now = TickMs
    /\ nextOpId = 1
    /\ nextLocal = 1
    /\ pc = "idle"
    /\ flushRef = "none"
    /\ staleQueue = <<>>
    /\ flushNow = 0
    /\ commands = <<>>
    /\ createdToComplete = <<>>
    /\ syncs = 0
    /\ cycleFilter = Undefined
    /\ pendingFilterSync = Undefined
    /\ awaiting = 0
    /\ filterResults = EmptyMap
    /\ filterLastUsedAt = <<>>
    /\ note = NoLine
    /\ jobs = <<>>
    /\ direct = "none"
    /\ idMappingUpdated = FALSE
\* no data file
\* no remote service is attached: nothing answers the requests but the responses
\* the behaviours draw
NoReply == [tag |-> "none"]
NoRemote ==
    /\ remote = EmptyMap
    /\ head = 0
    /\ applied = {}
    /\ inbox = NoReply
    /\ remoteEdits = 0
Init ==
    /\ InitService
    /\ raw = NoSnapshot
    /\ loaded = NotLoaded
    /\ NoRemote

(* --------------------------- SyncManager scan -------------------------- *)
\* the signatures a line of the note can show
Signatures == [content : {"a"}, isCompleted : BOOLEAN,
               projectId : ProjectIds \cup {Undefined}, dueDate : {Undefined}]

\* the signature scanAndSyncFile builds from a cached record (line 211)
SigOf(rec) == [content |-> rec.content, isCompleted |-> rec.isCompleted,
               projectId |-> rec.projectId, dueDate |-> rec.dueDate]

\* mutation of sigEquals: every pair of signatures is taken for equal
SigAlwaysEqual(a, b) == TRUE

\* sigEquals for two defined signatures
sigEquals(a, b) ==
    /\ a.content = b.content
    /\ a.isCompleted = b.isCompleted
    /\ a.projectId = b.projectId
    /\ a.dueDate = b.dueDate

\* mutation of SetShadowIn: the shadow map is left as it is
ShadowKept(shadow, alias, id, sig) == shadow

\* setLineShadow on an explicit shadow map
SetShadowIn(shadow, alias, id, sig) ==
    LET canonical == ResolveIn(alias, id)
        s1 == Put(shadow, canonical, sig)
    IN  IF IsLocalId(id) /\ id \in DOMAIN alias THEN Del(s1, id) ELSE s1

\* /^\d+$/.test(id)
IsNumericId(id) == id \in Range(RemoteIdSeq)

\* the scan reaches the line of existingId: a first scan runs syncNow and starts over
\* when no full sync has been recorded or when the cache holds nothing for a numeric
\* id (lines 166-170, 184-188); the second scan follows the end of that cycle
ScanReaches(existingId) ==
    \/ /\ lastFullSyncAt # 0
       /\ ~(IsNumericId(existingId) /\ resolveId(existingId) \notin DOMAIN tasksById)
    \/ pc = "idle" /\ syncs > 0

\* mutation of ScanEnqueue: a changed line always sends its content and due date
ScanAlwaysUpdates(s, existingId, prev, cur) ==
    LET s1 == updateTaskOn(s, existingId, cur.content, cur.dueDate)
        s2 == IF cur.projectId # Undefined /\ prev.projectId # cur.projectId
              THEN moveTaskOn(s1, existingId, cur.projectId) ELSE s1
    IN  IF prev.isCompleted # cur.isCompleted
        THEN IF cur.isCompleted THEN closeTaskOn(s2, existingId) ELSE reopenTaskOn(s2, existingId)
        ELSE s2

\* the ops scanAndSyncFile enqueues for a line whose signature moved from prev to cur
\* (lines 223-238)
ScanEnqueue(s, existingId, prev, cur) ==
    LET s1 == IF prev.content # cur.content \/ prev.dueDate # cur.dueDate
              THEN updateTaskOn(s, existingId, cur.content, cur.dueDate) ELSE s
        s2 == IF cur.projectId # Undefined /\ prev.projectId # cur.projectId
              THEN moveTaskOn(s1, existingId, cur.projectId) ELSE s1
    IN  IF prev.isCompleted # cur.isCompleted
        THEN IF cur.isCompleted THEN closeTaskOn(s2, existingId) ELSE reopenTaskOn(s2, existingId)
        ELSE s2

\* scanAndSyncFile, the loop body for a line that carries the id rawId; hasStatus
\* says that the line is a checkbox line, cur is the signature it shows. The line is
\* the note's as the user left it; the scan writes the resolved id into it
ScanLine(rawId, hasStatus, cur) ==
    LET existingId == resolveId(rawId)
        shadow1 == IF rawId # existingId
                   THEN MoveShadowIn(lineShadowById, idAliasMap, rawId, existingId)
                   ELSE lineShadowById
        canonical == resolveId(existingId)
        hasShadow == canonical \in DOMAIN shadow1
        hasCached == canonical \in DOMAIN tasksById
        prevSig == IF hasShadow THEN shadow1[canonical] ELSE SigOf(tasksById[canonical])
    IN  /\ ScanReaches(existingId)
        /\ IF ~hasStatus
           THEN lineShadowById' = shadow1 /\ UNCHANGED <<tasksById, queue, nextOpId, nextLocal>>
           ELSE IF ~hasShadow /\ ~hasCached
           THEN /\ lineShadowById' = SetShadowIn(shadow1, idAliasMap, existingId, cur)
                /\ UNCHANGED <<tasksById, queue, nextOpId, nextLocal>>
           ELSE IF sigEquals(prevSig, cur)
           THEN lineShadowById' = shadow1 /\ UNCHANGED <<tasksById, queue, nextOpId, nextLocal>>
           ELSE /\ Commit(ScanEnqueue(Service, existingId, prevSig, cur))
                /\ lineShadowById' = SetShadowIn(shadow1, idAliasMap, existingId, cur)
        /\ note' = Line(existingId, hasStatus, cur)
        /\ UNCHANGED <<idAliasMap, syncToken, lastFullSyncAt, now, pc, flightVars, syncs,
                   cycleVars, cacheVars, outerVars>>

\* scanAndSyncFile, the loop body for a checkbox line with the sync tag and no id
\* (lines 244-278); the project is the tag's, else the default project of the settings
ScanNewLine(cur) ==
    /\ nextLocal <= MaxCreates
    /\ LET localId == LocalIdSeq[nextLocal]
           s1 == createTaskOn(Service, cur.content, cur.projectId, cur.dueDate)
       IN  /\ Commit(IF cur.isCompleted THEN closeTaskOn(s1, localId) ELSE s1)
           /\ lineShadowById' = SetShadowIn(lineShadowById, idAliasMap, localId, cur)
           /\ note' = Line(localId, TRUE, cur)
    /\ UNCHANGED <<idAliasMap, syncToken, lastFullSyncAt, now, pc, flightVars, syncs,
                   cycleVars, cacheVars, outerVars>>

\* the user edits the checkbox line that carries the id of a task: it shows sig
EditNote(sig) ==
    /\ note.id # Undefined
    /\ note.hasStatus
    /\ note.sig # sig
    /\ note' = [note EXCEPT !.sig = sig]
    /\ UNCHANGED <<storeVars, now, nextOpId, nextLocal, pc, flightVars, syncs, cycleVars, cacheVars,
                   outerVars>>

\* what syncDown does with the line l that carries an id, on the shadow map shadow0:
\* [line: the line it writes, shadow: the shadow map it leaves]. The line is
\* rebuilt from the cached record (line 409); its parsed signature is the record's
SyncDownLine(l, shadow0) ==
    LET rawId == l.id
        existingId == resolveId(rawId)
        hasCached == existingId \in DOMAIN tasksById
        shadow1 == IF rawId # existingId
                   THEN MoveShadowIn(shadow0, idAliasMap, rawId, existingId)
                   ELSE shadow0
        line1 == [l EXCEPT !.id = existingId]
        canonical == resolveId(existingId)
        hasShadow == canonical \in DOMAIN shadow1
        remoteSig == SigOf(tasksById[existingId])
        keep == [line |-> line1, shadow |-> shadow1]
    IN  IF ~hasCached THEN keep
        ELSE IF hasPendingOpsForId(existingId) THEN keep
        ELSE IF tasksById[existingId].isDeleted
        THEN [line |-> [line1 EXCEPT !.id = Undefined], shadow |-> shadow1]
        ELSE IF ~l.hasStatus THEN keep
        ELSE IF hasShadow /\ ~sigEquals(shadow1[canonical], l.sig) THEN keep
        ELSE IF l.sig # remoteSig
        THEN [line |-> Line(existingId, TRUE, remoteSig),
              shadow |-> SetShadowIn(shadow1, idAliasMap, existingId, remoteSig)]
        ELSE keep

\* SyncManager.syncDown on the note
syncDown ==
    /\ note.id # Undefined
    /\ LET d == SyncDownLine(note, lineShadowById) IN
        /\ note' = d.line
        /\ lineShadowById' = d.shadow
    /\ UNCHANGED <<tasksById, queue, idAliasMap, syncToken, lastFullSyncAt, now, nextOpId,
                   nextLocal, pc, flightVars, syncs, cycleVars, cacheVars, outerVars>>

(* ---------------------------- remote service --------------------------- *)
\* The service at the other end of syncApiRequest, as the protocol of the requests
\* has it: a revision counter, a cursor that stands for a revision, commands applied
\* once per uuid, and responses that carry the items changed since the cursor of
\* the request (every live item for the wildcard cursor).
MaxRemoteEdits == 1
\* the cursors the service hands out: RevTokens[n + 1] stands for revision n
RevTokens == <<"r0", "r1", "r2", "r3", "r4", "r5", "r6", "r7">>
TokenOf(n) == RevTokens[n + 1]
\* the revision a cursor stands for, -1 for the wildcard '*' of getSyncTokenForRequest
CursorOf(tok) ==
    IF tok = NoToken THEN 0 - 1
    ELSE CHOOSE n \in 0..(Len(RevTokens) - 1) : RevTokens[n + 1] = tok
RemoteItem(content, checked, projectId, due, deleted, rev) ==
    [content |-> content, checked |-> checked, project_id |-> projectId, due |-> due,
     is_deleted |-> deleted, rev |-> rev]
\* the item of a response for the remote item id
ResponseItem(items, id) ==
    [id |-> id, is_deleted |-> items[id].is_deleted, content |-> items[id].content,
     checked |-> items[id].checked, project_id |-> items[id].project_id, due |-> items[id].due]
\* json.items for the cursor c: the items changed since c, every live item for '*'
ItemsSince(items, c) ==
    LET Changed(id) == /\ id \in DOMAIN items
                       /\ IF c < 0 THEN ~items[id].is_deleted ELSE items[id].rev > c
        ids == SelectSeq(RemoteIdSeq, Changed)
    IN  [i \in 1..Len(ids) |-> ResponseItem(items, ids[i])]
\* the item after the command cmd
Commanded(item, cmd) ==
    CASE cmd.type = "item_update" -> [item EXCEPT !.content = cmd.content, !.due = cmd.dueDate]
      [] cmd.type = "item_move" -> [item EXCEPT !.project_id = cmd.projectId]
      [] cmd.type = "item_close" -> [item EXCEPT !.checked = TRUE]
      [] cmd.type = "item_uncomplete" -> [item EXCEPT !.checked = FALSE]
\* the service applies one command; rs = [items, head, applied, status, mapping]. A
\* uuid it has applied is answered ok and not applied again; the uuids of the second
\* request are fresh with every request
ApplyCommand(rs, cmd) ==
    LET free == {i \in 1..Len(RemoteIdSeq) : RemoteIdSeq[i] \notin DOMAIN rs.items}
        ok == [rs EXCEPT !.status = Put(@, cmd.uuid, "ok"),
                         !.applied = IF cmd.uuid > 0 THEN @ \cup {cmd.uuid} ELSE @]
        error == [rs EXCEPT !.status = Put(@, cmd.uuid, "error")]
    IN  IF cmd.uuid \in rs.applied THEN ok
        ELSE IF cmd.type = "item_add"
        THEN IF free = {} THEN error
             ELSE LET id == RemoteIdSeq[CHOOSE i \in free : \A j \in free : i <= j] IN
                  [ok EXCEPT !.items = Put(@, id, RemoteItem(cmd.content, FALSE, cmd.projectId,
                                                           cmd.dueDate, FALSE, rs.head + 1)),
                             !.head = @ + 1,
                             !.mapping = Put(@, cmd.temp_id, id)]
        ELSE IF cmd.id \notin DOMAIN rs.items THEN error
        ELSE IF rs.items[cmd.id].is_deleted THEN error
        ELSE LET item == Commanded(rs.items[cmd.id], cmd) IN
             IF item = rs.items[cmd.id] THEN ok
             ELSE [ok EXCEPT !.items[cmd.id] = [item EXCEPT !.rev = rs.head + 1],
                             !.head = @ + 1]
RECURSIVE ApplyCommandsFrom(_, _, _)
ApplyCommandsFrom(rs, cmds, i) ==
    IF i > Len(cmds) THEN rs
    ELSE ApplyCommandsFrom(ApplyCommand(rs, cmds[i]), cmds, i + 1)
\* the service handles the request in flight and answers it
RemoteServes ==
    /\ pc \in {"token", "flush", "flush2", "pull"}
    /\ inbox.tag # pc
    /\ LET cmds == IF pc \in {"flush", "flush2"} THEN commands ELSE <<>>
           rs == ApplyCommandsFrom([items |-> remote, head |-> head, applied |-> applied,
                                    status |-> EmptyMap, mapping |-> EmptyMap], cmds, 1)
       IN  /\ remote' = rs.items
           /\ head' = rs.head
           /\ applied' = rs.applied
           /\ inbox' = [tag |-> pc, sync_token |-> TokenOf(rs.head),
                        sync_status |-> rs.status, temp_id_mapping |-> rs.mapping,
                        items |-> IF pc = "token" THEN <<>>
                                  ELSE ItemsSince(rs.items, CursorOf(syncToken))]
    /\ UNCHANGED <<storeVars, now, nextOpId, nextLocal, pc, flightVars, syncs, cycleVars,
                   cacheVars, note, raw, loaded, remoteEdits, jobs, direct, idMappingUpdated>>
\* the answer is dropped once the cycle has ended
RemoteRests ==
    /\ pc = "idle"
    /\ inbox.tag # "none"
    /\ inbox' = NoReply
    /\ UNCHANGED <<storeVars, now, nextOpId, nextLocal, pc, flightVars, syncs, cycleVars,
                   cacheVars, note, raw, loaded, remote, head, applied, remoteEdits, jobs, direct, idMappingUpdated>>
\* another client changes the item id of the remote: to the values of shape, or
\* deletes it
RemoteEdit(id, shape, delete) ==
    /\ remoteEdits < MaxRemoteEdits
    /\ id \in DOMAIN remote
    /\ ~remote[id].is_deleted
    /\ LET item == IF delete THEN [remote[id] EXCEPT !.is_deleted = TRUE]
                   ELSE [remote[id] EXCEPT !.content = shape.content, !.checked = shape.checked,
                                           !.project_id = shape.project_id, !.due = shape.due]
       IN  /\ item # remote[id]
           /\ remote' = [remote EXCEPT ![id] = [item EXCEPT !.rev = head + 1]]
    /\ head' = head + 1
    /\ remoteEdits' = remoteEdits + 1
    /\ UNCHANGED <<storeVars, now, nextOpId, nextLocal, pc, flightVars, syncs, cycleVars,
                   cacheVars, note, raw, loaded, applied, inbox, jobs, direct, idMappingUpdated>>
\* syncNow with the remote attached: getProjects requests the projects and stores
\* the cursor of the answer, or answers from its cache (filled within the last five
\* minutes, by the Sync API or by the REST fallback, which stores no cursor); the
\* cycles are counted up to MaxSyncs
RemoteSync ==
    /\ pc = "idle"
    /\ inbox.tag = "none"
    /\ \E tok \in {NoToken, TokenOf(head)} : FlushStart(tok)
    /\ syncs' = Min(syncs + 1, MaxSyncs)
    /\ UNCHANGED <<cycleVars, cacheVars, note, outerVars>>

(* --------------------------- specifications ---------------------------- *)
\* at most n operation ids are handed out to the calls of a behaviour
Budget(n) == nextOpId' <= n + 1

\* the calls of the service that enqueue an op, with payloads drawn from C, P and D
QueueCalls(C, P, D, n) ==
    \/ \E c \in C, p \in P \cup {Undefined}, d \in D : createTask(c, p, d) /\ Budget(n)
    \/ \E id \in KnownIds : closeTask(id) /\ Budget(n)
    \/ \E id \in KnownIds : reopenTask(id) /\ Budget(n)
    \/ \E id \in KnownIds, c \in C, d \in D : updateTask(id, c, d) /\ Budget(n)
    \/ \E id \in KnownIds, p \in P : moveTask(id, p) /\ Budget(n)

SyncStep ==
    \/ \E tok \in Tokens \cup {NoToken} : syncNow(tok)
    \/ \E tok \in Tokens : TokenDone(tok)
    \/ FlushRequestFails
    \/ \E r \in FlushResponses(commands) : FlushResponse(r)
    \/ \E tok \in Tokens, items \in ItemLists : Flush2Response(tok, items)
    \/ \E r \in PullResponses : PullResponse(r)
    \/ PullFails

\* the steps of one sync cycle
OneCycle == syncs' <= 1
SingleSyncStep ==
    \/ \E tok \in Tokens \cup {NoToken} : syncNow(tok) /\ OneCycle
    \/ \E tok \in Tokens : TokenDone(tok)
    \/ FlushRequestFails
    \/ \E r \in FlushResponses(commands) : FlushResponse(r)
    \/ \E tok \in Tokens, items \in ItemLists : Flush2Response(tok, items)
    \/ \E r \in PullResponses : PullResponse(r)
    \/ PullFails

ScanStep ==
    \/ \E rawId \in KnownIds, hasStatus \in BOOLEAN, cur \in Signatures :
          ScanLine(rawId, hasStatus, cur) /\ Budget(MaxOpIds)
    \/ \E cur \in Signatures : ScanNewLine(cur) /\ Budget(MaxOpIds)

\* the service under direct calls, sync cycles and the queue clear
Next ==
    \/ QueueCalls({"a"}, ProjectIds, {Undefined}, MaxOpIds)
    \/ clearQueue
    \/ SyncStep
    \/ Tick
Spec == Init /\ [][Next]_vars

\* the same without the queue clear
NextSync ==
    \/ QueueCalls({"a"}, ProjectIds, {Undefined}, MaxOpIds)
    \/ SyncStep
    \/ Tick
SpecSync == Init /\ [][NextSync]_vars

\* the queue manager alone, under calls with every payload
NextQueue == QueueCalls(Contents, ProjectIds, DueDates, MaxQueueOps)
SpecQueue == Init /\ [][NextQueue]_vars

\* the service under the scan of the note and sync cycles
NextScan ==
    \/ ScanStep
    \/ SyncStep
    \/ Tick
SpecScan == Init /\ [][NextScan]_vars

\* the scan of lines that show every content, due date, project and checkbox, with
\* one sync cycle
LineSignatures == [content : Contents, isCompleted : BOOLEAN,
                   projectId : ProjectIds \cup {Undefined}, dueDate : DueDates]
NextEdit ==
    \/ \E rawId \in KnownIds, cur \in LineSignatures :
          ScanLine(rawId, TRUE, cur) /\ Budget(MaxQueueOps)
    \/ \E cur \in Signatures : ScanNewLine(cur) /\ Budget(MaxQueueOps)
    \/ SingleSyncStep
SpecEdit == Init /\ [][NextEdit]_vars

\* the note under edits, scans and syncDown passes, with one sync cycle
DownStep ==
    \/ \E sig \in Signatures : EditNote(sig)
    \/ syncDown
NextDown ==
    \/ ScanStep
    \/ DownStep
    \/ SingleSyncStep
SpecDown == Init /\ [][NextDown]_vars

\* the orchestrator: calls of syncNow and syncFilterNow at any time, the steps of
\* the cycles, and one task created to be flushed
FilterStep ==
    \/ syncNowWhileRunning
    \/ \E f \in Filters, tok \in Tokens \cup {NoToken} : syncFilterNow(f, tok)
    \/ \E tok \in Tokens \cup {NoToken} : FollowUp(tok)
    \/ \E list \in FilterTasks : FilterResponse(list)
    \/ FilterFails
NextCycle ==
    \/ \E c \in {"a"} : createTask(c, Undefined, Undefined) /\ Budget(1)
    \/ \E tok \in Tokens \cup {NoToken} : syncNow(tok)
    \/ \E tok \in Tokens : TokenDone(tok)
    \/ FlushRequestFails
    \/ \E r \in FlushResponses(commands) : FlushResponse(r)
    \/ \E r \in PullResponses : PullResponse(r)
    \/ PullFails
    \/ FilterStep
SpecCycle == Init /\ [][NextCycle]_vars

\* one op followed through its retries: a task is created or closed, sync cycles
\* run when an op is due, time passes until the next retry
NextBackoff ==
    \/ \E c \in {"a"} : createTask(c, Undefined, Undefined) /\ Budget(1)
    \/ \E id \in RemoteIds : closeTask(id) /\ Budget(1)
    \/ StartSync(NoToken, MaxRetries) /\ (syncs = 0 \/ \E i \in 1..Len(queue) : ~InBackoff(queue[i], now))
    \/ \E r \in FlushResponses(commands) : FlushResponseWithin(r, MaxRetries)
    \/ \E r \in PullResponses : PullResponse(r)
    \/ AwaitRetry
SpecBackoff == Init /\ [][NextBackoff]_vars

\* the filter cache: filter syncs that find the server unchanged, reads of filters,
\* days passing and prunes under every policy
NextCache ==
    \/ \E f \in Filters : syncFilterNow(f, NoToken) /\ pc = "idle"
    \/ \E r \in PullResponses : PullResponse(r) /\ r.items = <<>>
    \/ PullFails
    \/ \E list \in FilterTasks : FilterResponse(list)
    \/ FilterFails
    \/ \E f \in Filters : getTasks(f)
    \/ \E R \in Retentions, M \in Maxima : PruneNow(R, M)
    \/ Sleep
SpecCache == Init /\ [][NextCache]_vars

\* the load of the data file, whatever snapshot it holds
InitLoad ==
    /\ InitService
    /\ raw \in RawSnapshots
    /\ loaded = NotLoaded
    /\ NoRemote
NextLoad == loadPluginData
SpecLoad == InitLoad /\ [][NextLoad]_vars

\* the service attached to the remote: calls and queue clears at any time, changes
\* by other clients, and sync cycles whose requests all succeed. Time stands still:
\* an op in backoff is not retried
InitRemote ==
    /\ InitService
    /\ raw = NoSnapshot
    /\ loaded = NotLoaded
    /\ remote \in {EmptyMap, [id \in {"1"} |-> RemoteItem("a", FALSE, Undefined, Undefined, FALSE, 0)]}
    /\ head = 0
    /\ applied = {}
    /\ inbox = NoReply
    /\ remoteEdits = 0
CycleStep ==
    \/ RemoteSync
    \/ RemoteServes
    \/ inbox.tag = pc /\ TokenDone(inbox.sync_token)
    \/ inbox.tag = pc /\ FlushResponse(inbox)
    \/ inbox.tag = pc /\ Flush2Response(inbox.sync_token, inbox.items)
    \/ inbox.tag = pc /\ PullResponse(inbox)
    \/ RemoteRests
NextRemote ==
    \/ QueueCalls({"a"}, ProjectIds, {Undefined}, MaxOpIds)
    \/ clearQueue
    \/ \E id \in RemoteIds, shape \in ItemShapes, delete \in BOOLEAN : RemoteEdit(id, shape, delete)
    \/ CycleStep
\* the cycles are repeated by the timer of the plugin and every request is answered
SpecRemote == InitRemote /\ [][NextRemote]_vars /\ WF_vars(CycleStep)

\* the same service and remote when clearQueue is never called
NextKept ==
    \/ QueueCalls({"a"}, ProjectIds, {Undefined}, MaxOpIds)
    \/ \E id \in RemoteIds, shape \in ItemShapes, delete \in BOOLEAN : RemoteEdit(id, shape, delete)
    \/ CycleStep
SpecKept == InitRemote /\ [][NextKept]_vars

(* ------------------------------- claims -------------------------------- *)
\* the indices of the ops of q that refer to id: its create, or an op whose id
\* resolves to it
RefsTo(q, id) ==
    {i \in 1..Len(q) : IF q[i].type = "create" THEN q[i].localId = id
                       ELSE ResolveIn(idAliasMap, q[i].id) = id}
CreatesOf(q, L) == {i \in 1..Len(q) : q[i].type = "create" /\ q[i].localId = L}
\* the create of the temporary id L is queued and L has no alias yet
PendingCreate(L) == L \notin DOMAIN idAliasMap /\ CreatesOf(queue, L) # {}
\* the queue after a call on L: as before, but for the op at index i, which is e
OnlyChanged(i, e) == queue' = [queue EXCEPT ![i] = e]

\* C1: while the create op of a temporary id L is queued and L has no alias, every
\* updateTask / moveTask / closeTask / reopenTask call on L leaves the queue with
\* the same ops, one of them referring to L: the create, which takes the content and
\* dueDate (update), the projectId (move) or isCompleted = TRUE / FALSE (close /
\* reopen) of the call and keeps its other values; nothing is appended.
C1_FoldIntoCreate ==
    [][\A L \in LocalIds : PendingCreate(L) =>
          LET i == CHOOSE k \in CreatesOf(queue, L) : TRUE IN
          /\ \A c \in Contents, d \in DueDates :
                updateTask(L, c, d) =>
                    OnlyChanged(i, [queue[i] EXCEPT !.content = c, !.dueDate = d])
          /\ \A p \in ProjectIds :
                moveTask(L, p) => OnlyChanged(i, [queue[i] EXCEPT !.projectId = p])
          /\ closeTask(L) => OnlyChanged(i, [queue[i] EXCEPT !.isCompleted = TRUE])
          /\ reopenTask(L) => OnlyChanged(i, [queue[i] EXCEPT !.isCompleted = FALSE])
          /\ (\/ \E c \in Contents, d \in DueDates : updateTask(L, c, d)
              \/ \E p \in ProjectIds : moveTask(L, p)
              \/ closeTask(L)
              \/ reopenTask(L)) => RefsTo(queue', L) = {i}]_vars

\* C1 witness: two calls have been folded into the create of local-1, which is the
\* only op of the queue, completed and with the content of a later update
C1_Witness ==
    /\ nextOpId = 4
    /\ Len(queue) = 1
    /\ queue[1].type = "create"
    /\ queue[1].isCompleted
    /\ queue[1].content = "b"
    /\ tasksById["local-1"].content = "b"

\* the indices of the update ops of q for the canonical id X
UpdatesFor(q, X) ==
    {i \in 1..Len(q) : q[i].type = "update" /\ ResolveIn(idAliasMap, q[i].id) = X}
\* after updateTask(X, c, d): one update op for X, with the payload of the call, and
\* no longer a queue if an update op for X was queued already
OneUpdate(X, c, d) ==
    /\ Cardinality(UpdatesFor(queue', X)) = 1
    /\ \A i \in UpdatesFor(queue', X) : queue'[i].content = c /\ queue'[i].dueDate = d
    /\ UpdatesFor(queue, X) # {} => Len(queue') = Len(queue)

\* C2 as stated: for every canonical id X, after every updateTask(X, c, d) the queue
\* holds exactly one update op for X, with payload (c, d), and the second and later
\* calls do not lengthen the queue.
C2_Original ==
    [][\A X \in Ids, c \in Contents, d \in DueDates :
          (resolveId(X) = X /\ updateTask(X, c, d)) => OneUpdate(X, c, d)]_vars

\* C2 amended: the same for every canonical id X that has no queued create op (an
\* update of a temporary id whose create is queued is folded into the create and
\* leaves no update op).
C2_Coalesce ==
    [][\A X \in Ids, c \in Contents, d \in DueDates :
          (resolveId(X) = X /\ CreatesOf(queue, X) = {} /\ updateTask(X, c, d))
              => OneUpdate(X, c, d)]_vars

\* C2 witness: three updateTask calls on task 1 have left one op, the third
C2_Witness ==
    /\ Len(queue) = 1
    /\ queue[1].type = "update"
    /\ queue[1].opId = 3
    /\ queue[1].id = "1"
    /\ queue[1].content = "b"

\* the coalescing kind of an op type
KindOf(type) == IF type \in {"close", "reopen"} THEN "toggle" ELSE type
Mutating(q) == {i \in 1..Len(q) : q[i].type # "create"}

ReportedOk(op, r) == op.opId \in DOMAIN r.sync_status /\ r.sync_status[op.opId] = "ok"
\* the last item of r with the id the op resolves to (under the aliases alias) exists
\* and shows the completion state the op asks for
ItemShows(op, alias, r) ==
    LET S == {k \in 1..Len(r.items) : r.items[k].id = ResolveIn(alias, op.id)} IN
    /\ S # {}
    /\ LET k == CHOOSE x \in S : \A y \in S : y <= x IN
       r.items[k].checked = (op.type = "close")
IsToggle(op) == op.type \in {"close", "reopen"}
HoldsOpId(q, opId) == \E j \in 1..Len(q) : q[j].opId = opId

\* C4 as stated: after the flush has handled a response, every queued op the response
\* reports ok (and, for close / reopen, confirms by its items) is absent from the
\* store's queue, whatever else the response carries.
C4_OkOpsLeaveQueue ==
    [][\A r \in FlushResponses(commands) : FlushResponse(r) =>
          \A i \in 1..Len(queue) :
              (ReportedOk(queue[i], r) /\ (IsToggle(queue[i]) => ItemShows(queue[i], idAliasMap', r)))
                  => ~HoldsOpId(queue', queue[i].opId)]_vars

\* C5: every queued op keeps the opId it was enqueued with, and every command built
\* from a queued op carries that opId as its uuid, at the first submission and at
\* every later one.
C5_StableOpId ==
    /\ \A i \in 1..Len(queue) : queue[i].opId = queue[i].origin
    /\ \A i \in 1..Len(staleQueue) : staleQueue[i].opId = staleQueue[i].origin
    /\ \A k \in 1..Len(commands) :
          commands[k].origin > 0 => commands[k].uuid = commands[k].origin

\* C5 witness: an op that failed once is submitted again, its request is in flight
C5_Witness ==
    /\ pc = "flush"
    /\ \E i \in 1..Len(queue), k \in 1..Len(commands) :
          /\ queue[i].attempts >= 1
          /\ commands[k].uuid = queue[i].opId
          /\ commands[k].origin = queue[i].origin

\* the response r carries a tombstone for the id the op resolves to
TombstoneFor(op, alias, r) ==
    \E k \in 1..Len(r.items) : r.items[k].is_deleted /\ r.items[k].id = ResolveIn(alias, op.id)
\* the op is still in the queue q, with one more attempt and its retry scheduled
Rescheduled(q, op) ==
    \E j \in 1..Len(q) :
        /\ q[j].opId = op.opId
        /\ q[j].attempts = op.attempts + 1
        /\ q[j].nextRetryAt = now + Min(30 * 60 * 1000, 2000 * Pow2(op.attempts))
\* what the flush has done with the queued close / reopen op when it has handled the
\* response r and left the store f
ToggleSettled(op, r, f) ==
    /\ ~HoldsOpId(f.queue, op.opId) => ReportedOk(op, r) /\ ItemShows(op, f.idAliasMap, r)
    /\ (ReportedOk(op, r) /\ ~ItemShows(op, f.idAliasMap, r)) => Rescheduled(f.queue, op)

\* C6 as stated: whatever response r the flush in flight receives, a queued close /
\* reopen op leaves the queue only if r reports it ok and shows the target item in
\* the matching state; reported ok without that item, it stays queued with attempts
\* incremented and nextRetryAt set. (FlushResult(r) is the store FlushResponse(r)
\* leaves.)
C6_Original ==
    pc = "flush" =>
        \A r \in FlushResponses(commands) : \A i \in 1..Len(queue) :
            IsToggle(queue[i]) => ToggleSettled(queue[i], r, FlushResult(r))

\* C6 amended: the same, unless the response carries a tombstone for the op's target
\* (the tombstone purges the op).
C6_ConfirmedToggle ==
    pc = "flush" =>
        \A r \in FlushResponses(commands) : \A i \in 1..Len(queue) :
            (IsToggle(queue[i]) /\ ~TombstoneFor(queue[i], FlushResult(r).idAliasMap, r))
                => ToggleSettled(queue[i], r, FlushResult(r))

\* C6 witness: a close reported ok was not confirmed and waits for its retry
C6_Witness ==
    \E i \in 1..Len(queue) :
        /\ queue[i].type = "close"
        /\ queue[i].attempts = 1
        /\ queue[i].lastError = "not confirmed"
        /\ queue[i].nextRetryAt = now + 2000

\* C7 as stated: for every alias L -> N, resolveId(L) is N and tasksById has no
\* record keyed by L.
C7_AliasRetired ==
    \A L \in DOMAIN idAliasMap : resolveId(L) = idAliasMap[L] /\ L \notin DOMAIN tasksById

\* the queue holds an op whose target resolves to id
Targeted(q, id) == \E i \in 1..Len(q) : TargetIn(idAliasMap, q[i]) = id
\* id has one item in the list
SingleItem(items, id) == Cardinality({k \in 1..Len(items) : items[k].id = id}) = 1

\* C8 as stated: when the pull applies an item to a cached record, the record keeps
\* content, isCompleted, projectId and dueDate and gets lastRemoteSeenAt refreshed
\* if the queue holds an op whose target resolves to the item's id; otherwise it
\* takes the item's values and source = remote.
C8_PendingWins ==
    [][\A r \in PullResponses : PullResponse(r) =>
          \A k \in 1..Len(r.items) :
              LET it == r.items[k] IN
              (~it.is_deleted /\ it.id \in DOMAIN tasksById /\ SingleItem(r.items, it.id)) =>
                  IF Targeted(queue, it.id)
                  THEN /\ SigOf(tasksById'[it.id]) = SigOf(tasksById[it.id])
                       /\ tasksById'[it.id].lastRemoteSeenAt = now
                  ELSE /\ SigOf(tasksById'[it.id]) =
                            [content |-> it.content, isCompleted |-> it.checked,
                             projectId |-> it.project_id, dueDate |-> it.due]
                       /\ tasksById'[it.id].source = "remote"]_vars

\* C9 as stated: after the pull has applied a tombstone for X, no queued op has a
\* target that resolves to X, whether or not X was cached; a cached record of X is
\* marked isDeleted.
C9_TombstonePurges ==
    [][\A r \in PullResponses : PullResponse(r) =>
          \A k \in 1..Len(r.items) :
              LET it == r.items[k] IN
              (it.is_deleted /\ SingleItem(r.items, it.id)) =>
                  /\ ~Targeted(queue', it.id)
                  /\ it.id \in DOMAIN tasksById => tasksById'[it.id].isDeleted]_vars

\* C10 as stated: when the scan handles a checkbox line with an id that has no
\* LineShadow, it enqueues nothing and leaves the shadow of the id equal to the
\* line's signature, whatever the cache holds for the id.
C10_ShadowBaseline ==
    [][\A rawId \in Ids, cur \in Signatures :
          (/\ rawId \notin DOMAIN lineShadowById
           /\ resolveId(rawId) \notin DOMAIN lineShadowById
           /\ ScanLine(rawId, TRUE, cur))
              => /\ queue' = queue
                 /\ resolveId(rawId) \in DOMAIN lineShadowById'
                 /\ lineShadowById'[resolveId(rawId)] = cur]_vars
\* the line of the note carries an id, is a checkbox line, and a shadow is stored for
\* its id that differs from the signature the line shows
LiveDiffers ==
    /\ note.id # Undefined
    /\ note.hasStatus
    /\ resolveId(note.id) \in DOMAIN lineShadowById
    /\ lineShadowById[resolveId(note.id)] # note.sig
\* the cache holds a tombstone for the task of the line
NoteTombstoned ==
    /\ resolveId(note.id) \in DOMAIN tasksById
    /\ tasksById[resolveId(note.id)].isDeleted
\* the pass leaves what the line shows and the shadow of its task as they are
LineKept ==
    /\ note'.hasStatus = note.hasStatus
    /\ note'.sig = note.sig
    /\ resolveId(note.id) \in DOMAIN lineShadowById <=> resolveId(note.id) \in DOMAIN lineShadowById'
    /\ resolveId(note.id) \in DOMAIN lineShadowById =>
           lineShadowById'[resolveId(note.id)] = lineShadowById[resolveId(note.id)]

\* C11 as stated: a syncDown pass over a line whose live signature differs from the
\* shadow stored for its id leaves the line (text) and the shadows unchanged,
\* whatever the cache holds for the task.
C11_Original ==
    [][(syncDown /\ LiveDiffers) => (note' = note /\ lineShadowById' = lineShadowById)]_vars

\* C11 amended: a syncDown pass over a line whose live signature differs from the
\* shadow stored for its id leaves the line's checkbox, content, due date and project
\* and the shadow of its task unchanged, whatever the cache holds for the task; of
\* the line's text it rewrites only the id token, to the canonical id, or removes it
\* when the cached record is a tombstone.
C11_ConflictSuppressed ==
    [][(syncDown /\ LiveDiffers) =>
          /\ LineKept
          /\ \/ note'.id = resolveId(note.id)
             \/ NoteTombstoned /\ note'.id = Undefined]_vars

\* a pass has met a line whose signature differs from both its shadow and the live
\* cached record, with no op queued: line and shadow still differ from the record
C11_Witness ==
    /\ LiveDiffers
    /\ ~NoteTombstoned
    /\ note.id = resolveId(note.id)
    /\ resolveId(note.id) \in DOMAIN tasksById
    /\ SigOf(tasksById[resolveId(note.id)]) # note.sig
    /\ SigOf(tasksById[resolveId(note.id)]) # lineShadowById[resolveId(note.id)]
    /\ queue = <<>>
    /\ ENABLED syncDown

\* C12 as stated: while the queue holds an op for the id of the line, a syncDown
\* pass leaves the line's checkbox, content, due date and project unchanged and does
\* not advance its shadow.
C12_PendingDefers ==
    [][(syncDown /\ note.hasStatus /\ Targeted(queue, resolveId(note.id))) => LineKept]_vars
\* a step that ends a cycle: its .finally has run
CycleEnds == pc \notin {"idle", "next"} /\ pc' \in {"idle", "next"}
\* a call of syncNow or syncFilterNow
SyncCall ==
    \/ syncNowWhileRunning
    \/ \E tok \in Tokens \cup {NoToken} : syncNow(tok)
    \/ \E f \in Filters, tok \in Tokens \cup {NoToken} : syncFilterNow(f, tok)

\* C13: at most one sync cycle is in progress: a cycle begins only when no cycle is
\* running; a syncNow or syncFilterNow call made while a cycle is running sends no
\* request and begins no cycle, and is handed the promise of the running cycle,
\* which settles when that cycle ends.
C13_SingleFlight ==
    [][/\ syncs' # syncs => pc \in {"idle", "next"}
       /\ (pc # "idle" /\ SyncCall) =>
              /\ UNCHANGED <<pc, syncs, syncToken, flightVars, storeVars, cycleFilter>>
              /\ awaiting' = awaiting + 1
       /\ awaiting' # awaiting => (awaiting' = awaiting + 1 \/ (CycleEnds /\ awaiting' = 0))
       /\ CycleEnds => awaiting' = 0]_vars

\* calls of syncNow and of syncFilterNow have been made while the flush request of a
\* cycle is in flight
C13_Witness ==
    /\ pc = "flush"
    /\ awaiting = 2
    /\ pendingFilterSync # Undefined

\* C14 as stated: when a cycle ends during which syncFilterNow was called, whatever
\* the cycle was, one further cycle begins at once, scoped to the filter of the last
\* such call.
C14_PendingRuns ==
    [][(CycleEnds /\ pendingFilterSync # Undefined) =>
          /\ pc' = "next"
          /\ cycleFilter' = pendingFilterSync
          /\ pendingFilterSync' = Undefined]_vars

\* the response r reports a status other than ok for the command of the op
ReportedFailed(op, r) == op.opId \in DOMAIN r.sync_status /\ r.sync_status[op.opId] # "ok"
\* the op is still in the queue q with one more attempt, an error recorded and
\* nextRetryAt = now + min(30 min, 2 s * 2^(attempts - 1)) for the new attempts
FailureRecorded(q, op) ==
    \E j \in 1..Len(q) :
        /\ q[j].opId = op.opId
        /\ q[j].attempts = op.attempts + 1
        /\ q[j].lastError # Undefined
        /\ q[j].nextRetryAt = now + Min(30 * 60 * 1000, 2 * 1000 * Pow2(q[j].attempts - 1))

\* C15 as stated: whatever response r the flush in flight receives, every queued op
\* whose command r reports with a failure status is still queued afterwards, with
\* attempts incremented by one, lastError recorded and nextRetryAt = now +
\* min(30 min, 2 s * 2^(attempts - 1)).
C15_Original ==
    pc = "flush" =>
        \A r \in FlushResponses(commands) : \A i \in 1..Len(queue) :
            ReportedFailed(queue[i], r) => FailureRecorded(FlushResult(r).queue, queue[i])

\* C15 amended: the same, unless the response carries a tombstone for the op's target
\* (the tombstone purges the op before the statuses are read).
C15_FailureBacksOff ==
    pc = "flush" =>
        \A r \in FlushResponses(commands) : \A i \in 1..Len(queue) :
            (ReportedFailed(queue[i], r) /\ ~TombstoneFor(queue[i], FlushResult(r).idAliasMap, r))
                => FailureRecorded(FlushResult(r).queue, queue[i])

\* C15 witness: an op has just failed for the eleventh time and waits the 30 minutes
\* of the cap
C15_Witness ==
    \E i \in 1..Len(queue) :
        /\ queue[i].attempts = 11
        /\ queue[i].lastError = "failed"
        /\ queue[i].nextRetryAt = now + 30 * 60 * 1000

\* the step records one more failure of the op at position i of the queue, which is
\* at position j afterwards
FailsAgain(i, j) ==
    /\ queue'[j].opId = queue[i].opId
    /\ queue'[j].attempts = queue[i].attempts + 1

\* C16 as stated: over the consecutive failures of one queued op, nextRetryAt -
\* queuedAt never decreases from one failure to the next and never exceeds 30
\* minutes.
C16_Original ==
    [][\A i \in 1..Len(queue), j \in 1..Len(queue') :
          FailsAgain(i, j) =>
              /\ queue'[j].nextRetryAt - queue'[j].queuedAt <= 30 * 60 * 1000
              /\ queue[i].attempts >= 1 =>
                    queue'[j].nextRetryAt - queue'[j].queuedAt
                        >= queue[i].nextRetryAt - queue[i].queuedAt]_vars

\* C16 amended: over the consecutive failures of one queued op, nextRetryAt -
\* queuedAt never decreases from one failure to the next, and nextRetryAt is at most
\* 30 minutes after the failure that set it.
C16_BackoffBounded ==
    [][\A i \in 1..Len(queue), j \in 1..Len(queue') :
          FailsAgain(i, j) =>
              /\ queue'[j].nextRetryAt - now' <= 30 * 60 * 1000
              /\ queue'[j].nextRetryAt > now'
              /\ queue[i].attempts >= 1 =>
                    queue'[j].nextRetryAt - queue'[j].queuedAt
                        >= queue[i].nextRetryAt - queue[i].queuedAt]_vars

\* C16 witness: an op has failed eleven times in a row, and its retry is due more
\* than 30 minutes after it was queued
C16_Witness ==
    \E i \in 1..Len(queue) :
        /\ queue[i].attempts = 11
        /\ queue[i].nextRetryAt - queue[i].queuedAt > 30 * 60 * 1000

\* the filters with a cached result set, and the time each was last used
Cached == DOMAIN filterResults
LastUsed(f) == UsedAt(filterLastUsedAt, f)
\* the cached result sets pruneCache leaves when it is called now with retention R
\* and maximum M
Survivors(R, M) == DOMAIN pruneCache(filterResults, filterLastUsedAt, now, R, M).filterResults
\* the cached result sets last used within R days
Recent(R) == {f \in Cached : now - LastUsed(f) <= R * DayMs}

\* C17: whatever the cache holds, pruneCache with retention R and maximum M leaves no
\* result set of a filter last used more than R days ago and, when the number of
\* cached result sets does not exceed M, leaves the result set of every filter last
\* used within R days.
C17_AgeRule ==
    \A R \in Retentions, M \in Maxima :
        /\ Survivors(R, M) \subseteq Recent(R)
        /\ Cardinality(Cached) <= M => Recent(R) \subseteq Survivors(R, M)

\* C18: whatever the cache holds, the result sets pruneCache with retention R and
\* maximum M leaves are min(M, n) of the n cached result sets not expired by age, and
\* none of them was used less recently than one that was dropped.
C18_LruSurvivors ==
    \A R \in Retentions, M \in Maxima :
        /\ Survivors(R, M) \subseteq Recent(R)
        /\ Cardinality(Survivors(R, M)) = Min(M, Cardinality(Recent(R)))
        /\ \A f \in Survivors(R, M), g \in Recent(R) \ Survivors(R, M) : LastUsed(f) >= LastUsed(g)

\* C19: whatever the cache holds, pruneCache with retention 0 drops a cached result
\* set only if the maximum-count rule rejects it: every result set it drops is
\* outside the M most recently used filters.
C19_ZeroRetention ==
    \A M \in Maxima :
        \A f \in Cached \ Survivors(0, M) : f \notin Allowed(filterLastUsedAt, M)

\* the end-to-end scenario, with content "a" for "Buy milk", the first local id for L
\* and the remote id "1" for 42
TheLocalId == LocalIdSeq[1]
\* the store holds nothing but the record of the task created locally and its
\* create op
OnlyCreateQueued ==
    /\ Len(queue) = 1
    /\ queue[1].type = "create"
    /\ queue[1].localId = TheLocalId
    /\ queue[1].content = "a"
    /\ DOMAIN tasksById = {TheLocalId}
    /\ tasksById[TheLocalId].content = "a"
    /\ ~tasksById[TheLocalId].isCompleted
    /\ idAliasMap = EmptyMap
\* the store holds the record of task "1", closed locally, and nothing but a close op
\* for it
OnlyCloseQueued ==
    /\ Len(queue) = 1
    /\ queue[1].type = "close"
    /\ queue[1].id = "1"
    /\ "1" \in DOMAIN tasksById
    /\ tasksById["1"].isCompleted
\* the response reports the create ok, maps its local id to "1" and carries no item
\* or the created item
AnswersCreate(r) ==
    /\ ReportedOk(queue[1], r)
    /\ DOMAIN r.temp_id_mapping = {TheLocalId}
    /\ r.temp_id_mapping[TheLocalId] = "1"
    /\ \A k \in 1..Len(r.items) :
          r.items[k] = LiveItem("1", [content |-> "a", checked |-> FALSE,
                                      project_id |-> Undefined, due |-> Undefined])
\* the response reports the close ok and shows item "1" completed
AnswersClose(r) ==
    /\ ReportedOk(queue[1], r)
    /\ Len(r.items) = 1
    /\ r.items[1].id = "1"
    /\ ~r.items[1].is_deleted
    /\ r.items[1].checked

\* C20: the end-to-end trace. createTask("a") on the empty store leaves one create op
\* queued; a flush answered ok with the mapping of the local id to "1" leaves an empty
\* queue and one record, keyed "1", with content "a" and not completed; closeTask("1")
\* then queues one close op, and a flush answered ok with item "1" shown completed
\* leaves an empty queue and the record completed.
C20_EndToEnd ==
    [][/\ (tasksById = EmptyMap /\ queue = <<>> /\ idAliasMap = EmptyMap
            /\ createTask("a", Undefined, Undefined)) => OnlyCreateQueued'
       /\ (pc = "flush" /\ OnlyCreateQueued) =>
              \A r \in FlushResponses(commands) :
                  AnswersCreate(r) =>
                      LET f == FlushResult(r) IN
                      /\ f.queue = <<>>
                      /\ DOMAIN f.tasksById = {"1"}
                      /\ f.tasksById["1"].id = "1"
                      /\ f.tasksById["1"].content = "a"
                      /\ ~f.tasksById["1"].isCompleted
       /\ (queue = <<>> /\ "1" \in DOMAIN tasksById /\ closeTask("1")) => OnlyCloseQueued'
       /\ (pc = "flush" /\ OnlyCloseQueued) =>
              \A r \in FlushResponses(commands) :
                  AnswersClose(r) =>
                      LET f == FlushResult(r) IN
                      /\ f.queue = <<>>
                      /\ f.tasksById["1"].isCompleted]_vars

\* C20 witness: the end of the trace. Both ops were queued and flushed, the local id
\* is an alias of "1", the only record is keyed "1" and is completed.
C20_Witness ==
    /\ queue = <<>>
    /\ nextOpId = 3
    /\ nextLocal = 2
    /\ idAliasMap = (TheLocalId :> "1")
    /\ DOMAIN tasksById = {"1"}
    /\ tasksById["1"].isCompleted
    /\ syncs = 2

\* the container is a map: the empty one or the well-formed one of the snapshot
IsMap(kind) == kind \in {"empty", "object"}

\* C21: whatever snapshot the data file holds, migrateLocalState returns a state in
\* which every map container is an object and queue is an array; the containers the
\* snapshot lacks are empty, its well-formed ones are preserved.
C21_LoaderDefaults ==
    LET s == migrateLocalState(raw, nextOpId, now) IN
    /\ \A m \in MapNames : IsMap(s.maps[m])
    /\ s.queue.kind = "array"
    /\ raw.kind = "object" =>
          /\ \A m \in MapNames :
                /\ raw.maps[m] = "absent" => s.maps[m] = "empty"
                /\ raw.maps[m] = "object" => s.maps[m] = "object"
          /\ raw.queue = "absent" => s.queue.ops = <<>>
          /\ raw.queue = "array" => GoodOp \in Range(s.queue.ops)

\* C22: when the flush request fails in transport (it throws or returns a non-2xx
\* status), every queued op submitted in it has its attempts incremented and its
\* nextRetryAt set by the backoff formula, and the cycle goes on to its pull.
C22_TransportBackoff ==
    [][(pc = "flush" /\ FlushRequestFails) =>
          /\ \A i \in 1..Len(queue) :
                queue[i].opId \in CommandUuids(commands) => Rescheduled(queue', queue[i])
          /\ pc' = "pull"]_vars

\* the queue q still holds the intent to complete the task id: a close op for it, or
\* its create op flagged isCompleted
CompletionQueued(q, alias, id) ==
    \E j \in 1..Len(q) :
        \/ q[j].type = "close" /\ ResolveIn(alias, q[j].id) = id
        \/ q[j].type = "create" /\ q[j].isCompleted /\ ResolveIn(alias, q[j].localId) = id

\* C24: the commands of the first request of a flush carry no completion; the second
\* request is sent after the response of the first has delivered the mapping, and it
\* closes mapped remote ids only; when the second request fails, the intent to
\* complete each of these tasks is still in the queue.
C24_CompletionRetained ==
    [][/\ (pc = "flush" /\ pc' = "flush2") =>
              \A k \in 1..Len(commands') :
                  /\ commands'[k].type = "item_close"
                  /\ \E l \in DOMAIN idAliasMap' : idAliasMap'[l] = commands'[k].id
       /\ (pc = "flush2" /\ FlushRequestFails) =>
              \A k \in 1..Len(commands) : CompletionQueued(queue', idAliasMap', commands[k].id)]_vars

\* the create op holds an intent its submitted command cmd did not carry: a call on
\* its temporary id was folded into it after the request was sent
FoldedInFlight(op, cmd) ==
    /\ op.type = "create"
    /\ cmd.uuid = op.opId
    /\ \/ op.content # cmd.content
       \/ op.dueDate # cmd.dueDate
       \/ op.projectId # cmd.projectId
       \/ op.isCompleted # (op.localId \in Range(createdToComplete))
\* the queue q holds an op for the task created under the temporary id l
QueuedFor(q, alias, l) ==
    \E j \in 1..Len(q) :
        \/ q[j].type = "create" /\ q[j].localId = l
        \/ q[j].type # "create" /\ ResolveIn(alias, q[j].id) = ResolveIn(alias, l)

\* C25: when updateTask / moveTask / closeTask / reopenTask was called on a temporary
\* id while the create command for it was in flight, then whatever response the
\* flush receives, an op for that task is still queued once the response has been
\* handled (the request in flight did not carry the intent).
C25_InFlightIntentKept ==
    pc = "flush" =>
        \A i \in 1..Len(queue), k \in 1..Len(commands) :
            FoldedInFlight(queue[i], commands[k]) =>
                \A r \in FlushResponses(commands) :
                    QueuedFor(FlushResult(r).queue, FlushResult(r).idAliasMap, queue[i].localId)

\* C26: while a sync cycle awaits the response of a request (its position stays the
\* same over the step), no step changes tasksById or the queue: no createTask,
\* updateTask, moveTask, closeTask, reopenTask and no clearQueue acts between the
\* sending of a request and the handling of its response.
C26_NoMutationInFlight ==
    [][(pc # "idle" /\ pc' = pc) => (queue' = queue /\ tasksById' = tasksById)]_vars

\* the line of rawId has a baseline: a shadow stored for its id or a cached record
HasBaseline(rawId) ==
    LET existingId == resolveId(rawId)
        shadow1 == IF rawId # existingId
                   THEN MoveShadowIn(lineShadowById, idAliasMap, rawId, existingId)
                   ELSE lineShadowById
    IN  resolveId(existingId) \in DOMAIN shadow1 \/ resolveId(existingId) \in DOMAIN tasksById
\* the baseline prev of the line of rawId: the shadow, else the cached record's signature
Baseline(rawId) ==
    LET existingId == resolveId(rawId)
        shadow1 == IF rawId # existingId
                   THEN MoveShadowIn(lineShadowById, idAliasMap, rawId, existingId)
                   ELSE lineShadowById
        canonical == resolveId(existingId)
    IN  IF canonical \in DOMAIN shadow1 THEN shadow1[canonical] ELSE SigOf(tasksById[canonical])
\* the step is the scan of the checkbox line of rawId that shows cur
ScansLine(rawId, cur) ==
    /\ note' = Line(resolveId(rawId), TRUE, cur)
    /\ pc' = pc
    /\ ScanLine(rawId, TRUE, cur)
\* the ops the scan is to enqueue for id when the line moved from prev to cur, with
\* operation ids from n on
ScanOps(id, prev, cur, n, t) ==
    LET u == IF prev.content # cur.content \/ prev.dueDate # cur.dueDate
             THEN <<Op("update", n, Undefined, id, cur.content, Undefined, cur.dueDate, t)>>
             ELSE <<>>
        m == IF cur.projectId # Undefined /\ cur.projectId # prev.projectId
             THEN <<Op("move", n + Len(u), Undefined, id, Undefined, cur.projectId, Undefined, t)>>
             ELSE <<>>
        c == IF cur.isCompleted # prev.isCompleted
             THEN <<Op(IF cur.isCompleted THEN "close" ELSE "reopen", n + Len(u) + Len(m),
                       Undefined, id, Undefined, Undefined, Undefined, t)>>
             ELSE <<>>
    IN  u \o m \o c
RECURSIVE EnqueueAll(_, _, _)
EnqueueAll(q, alias, ops) ==
    IF ops = <<>> THEN q ELSE EnqueueAll(enqueue(q, alias, Head(ops)), alias, Tail(ops))

\* C28: when the scan handles a checkbox line whose signature cur differs from its
\* baseline prev, the ops it hands to the queue are exactly: an update iff content or
\* dueDate differ, a move iff cur.projectId is set and differs from prev.projectId,
\* a close iff the completion changed to true and a reopen iff it changed to false,
\* in this order and nothing else; when cur equals prev nothing is enqueued.
C28_ScanEnqueues ==
    [][\A rawId \in KnownIds, cur \in LineSignatures :
          (HasBaseline(rawId) /\ ScansLine(rawId, cur)) =>
              LET ops == ScanOps(resolveId(rawId), Baseline(rawId), cur, nextOpId, now) IN
              /\ queue' = EnqueueAll(queue, idAliasMap, ops)
              /\ nextOpId' = nextOpId + Len(ops)
              /\ cur = Baseline(rawId) => (queue' = queue /\ nextOpId' = nextOpId)]_vars

\* a scan has met a line whose content, project and checkbox all differ from the
\* baseline: an update, a move and a close are queued for its task in this order
C28_Witness ==
    /\ Len(queue) = 3
    /\ queue[1].type = "update" /\ queue[2].type = "move" /\ queue[3].type = "close"
    /\ queue[1].id = queue[2].id /\ queue[2].id = queue[3].id
    /\ queue[2].opId = queue[1].opId + 1 /\ queue[3].opId = queue[2].opId + 1
    /\ queue[1].id \in DOMAIN lineShadowById
    /\ lineShadowById[queue[1].id].content = queue[1].content
    /\ lineShadowById[queue[1].id].projectId = queue[2].projectId
    /\ lineShadowById[queue[1].id].isCompleted

\* the shadow stored for id after the step is sig
ShadowBecomes(id, sig) ==
    /\ ResolveIn(idAliasMap', id) \in DOMAIN lineShadowById'
    /\ lineShadowById'[ResolveIn(idAliasMap', id)] = sig

TogglesFor(q, x) == {i \in 1..Len(q) : IsToggle(q[i]) /\ q[i].id = x}
\* x is canonical and no create is queued for it
CanonicalNoCreate(x) ==
    /\ resolveId(x) = x
    /\ \A i \in 1..Len(queue) : queue[i].type = "create" => queue[i].localId # x

\* C30: for a canonical id X with no pending create, every closeTask(X) or
\* reopenTask(X) made before a flush leaves exactly one completion toggle for X in
\* the queue, of the kind of the call; it takes the position of the toggle queued
\* for X before the call, or the end of the queue when there was none, and every
\* other op keeps its position.
C30_ToggleCollapses ==
    [][\A x \in KnownIds :
          (CanonicalNoCreate(x) /\ (closeTask(x) \/ reopenTask(x))) =>
              LET T0 == TogglesFor(queue, x)
                  T1 == TogglesFor(queue', x)
              IN  /\ Cardinality(T1) = 1
                  /\ T0 # {} => (T1 = T0 /\ Len(queue') = Len(queue))
                  /\ T0 = {} => T1 = {Len(queue) + 1}
                  /\ \A i \in 1..Len(queue) : i \notin T1 => queue'[i] = queue[i]
                  /\ \A i \in T1 : /\ closeTask(x) => queue'[i].type = "close"
                                   /\ reopenTask(x) => queue'[i].type = "reopen"]_vars

\* closeTask, updateTask, reopenTask were called for one id in this order: the
\* reopen stands in the first position, where the close was, before the update
C30_Witness ==
    /\ pc = "idle" /\ syncs = 0
    /\ Len(queue) = 2
    /\ queue[1].type = "reopen" /\ queue[1].opId = 3
    /\ queue[2].type = "update" /\ queue[2].opId = 2
    /\ queue[1].id = queue[2].id

\* every live item of the remote has a cached record with its content, completion,
\* project and due date
CacheAgrees ==
    \A id \in DOMAIN remote :
        ~remote[id].is_deleted =>
            /\ id \in DOMAIN tasksById
            /\ tasksById[id].content = remote[id].content
            /\ tasksById[id].isCompleted = remote[id].checked
            /\ tasksById[id].projectId = remote[id].project_id
            /\ tasksById[id].dueDate = remote[id].due

\* C23: once the local calls and the changes of other clients have stopped, with
\* every request answered and the cycles repeated, the store reaches, from the fresh
\* empty store with no cursor, a state from which on every live item of the remote
\* has a cached record with the remote's content, completion, project and due
\* date whenever the queue is empty.
C23_Converges == <>[](queue = <<>> => CacheAgrees)

\* C27: once the local calls have stopped, with every request answered and the
\* cycles repeated, the queue reaches a state from which on it holds no op the
\* flush can submit: every op has left the queue except those that wait for their
\* retry time (time stands still in these behaviours, so that an op in backoff is
\* not counted as staying for ever).
C27_QueueDrains == <>[](\A i \in 1..Len(queue) : InBackoff(queue[i], now))

(* ------------------------- the flush's selection ------------------------ *)
\* the flush whose request is in flight holds the queued op in its array and passed
\* it over when it built its commands at flushNow: the op waits for its retry, or it
\* is no create and its target is a temporary id without alias
Deferred(op) ==
    /\ \E j \in 1..Len(CapturedQueue) : CapturedQueue[j] = op
    /\ \/ op.nextRetryAt > flushNow
       \/ /\ op.type # "create"
          /\ resolveId(op.id) \in LocalIds
          /\ resolveId(op.id) \notin DOMAIN idAliasMap

\* the queue q holds the op as it is
HoldsUnchanged(q, op) == \E j \in 1..Len(q) : q[j] = op

\* C31 as stated: the request in flight carries no command for a queued op whose
\* nextRetryAt lay in the future when the flush began, nor for an update / move /
\* close / reopen op whose target is a temporary id without alias; whatever response
\* the flush receives, such an op is in the queue unchanged when the flush has
\* handled it.
C31_Original ==
    pc = "flush" =>
        \A i \in 1..Len(queue) : Deferred(queue[i]) =>
            /\ queue[i].opId \notin CommandUuids(commands)
            /\ \A r \in FlushResponses(commands) : HoldsUnchanged(FlushResult(r).queue, queue[i])

\* C31 amended: the same, unless the response carries a tombstone for the op's
\* target (the tombstone purges every queued op of that target, submitted or not).
C31_DeferredOpsStay ==
    pc = "flush" =>
        \A i \in 1..Len(queue) : Deferred(queue[i]) =>
            /\ queue[i].opId \notin CommandUuids(commands)
            /\ \A r \in FlushResponses(commands) :
                  ~TombstoneFor(queue[i], FlushResult(r).idAliasMap, r)
                      => HoldsUnchanged(FlushResult(r).queue, queue[i])

\* C31 witness: a request is in flight whose flush passed over an op in backoff and
\* submitted another one
C31_Witness ==
    /\ pc = "flush"
    /\ commands # <<>>
    /\ \E i \in 1..Len(queue) :
          /\ queue[i].nextRetryAt > flushNow
          /\ queue[i].attempts >= 1
          /\ queue[i].opId \notin CommandUuids(commands)

\* the position of the op with this opId in the queue q, 0 when q holds none
PositionOf(q, opId) ==
    LET S == {j \in 1..Len(q) : q[j].opId = opId} IN
    IF S = {} THEN 0 ELSE CHOOSE j \in S : \A k \in S : j <= k

\* the ops that q keeps of the two stand in q in the order (i before j) they had
OrderKept(q, opI, opJ) ==
    (HoldsOpId(q, opI.opId) /\ HoldsOpId(q, opJ.opId))
        => PositionOf(q, opI.opId) < PositionOf(q, opJ.opId)

\* C32 as stated: whatever response r the flush in flight receives, the outcome of
\* each command is applied on its own: every queued op r reports ok (for a close /
\* reopen: ok and confirmed by r's items) has left the queue, every op r reports
\* failed is queued with one more attempt and its backoff, every op r does not
\* mention is in the queue unchanged, and the ops that remain keep their relative
\* order. Ops whose target r reports deleted are left aside.
C32_OutcomesIndependent ==
    pc = "flush" =>
        \A r \in FlushResponses(commands) :
            LET f == FlushResult(r)
                Live(op) == \A k \in 1..Len(r.items) :
                                r.items[k].is_deleted => r.items[k].id # TargetIn(f.idAliasMap, op)
            IN  /\ \A i \in 1..Len(queue) : Live(queue[i]) =>
                      /\ (ReportedOk(queue[i], r)
                             /\ (IsToggle(queue[i]) => ItemShows(queue[i], f.idAliasMap, r)))
                            => ~HoldsOpId(f.queue, queue[i].opId)
                      /\ ReportedFailed(queue[i], r) => FailureRecorded(f.queue, queue[i])
                      /\ queue[i].opId \notin DOMAIN r.sync_status
                            => HoldsUnchanged(f.queue, queue[i])
                /\ \A i, j \in 1..Len(queue) : i < j => OrderKept(f.queue, queue[i], queue[j])

(* --------------------------- order of a cycle --------------------------- *)
\* the positions of a cycle after which pc stands: outside a cycle, in the flush, in
\* the pulls
Outside == {"idle", "next"}
InFlush == {"token", "flush", "flush2"}
InPull == {"pull", "filter"}

\* C33: a cycle goes through the projects refresh and the flush, then the item pull,
\* then (filter cycle) the filter pull, then the cache prune and its end. The pull
\* request is sent only when the flush has returned (at once, when it has no command
\* to submit; otherwise after its last response), no flush request is in flight
\* during the pulls, the filter pull follows the item pull of a filter cycle, and the
\* cache is pruned only by the step that ends the cycle after its last pull. When a
\* request of the flush throws, the cycle ends by that step: no item is applied, no
\* cursor stored, nothing pruned.
C33_CycleOrder ==
    [][/\ (pc \in Outside /\ pc' \notin Outside) =>
             /\ pc' \in {"token", "flush", "pull"}
             /\ pc' = "pull" => BuildCommands(queue, idAliasMap, now, 1, EmptyAcc).commands = <<>>
       /\ pc = "token" => pc' \in {"token", "flush", "pull"} \cup Outside
       /\ pc = "flush" => pc' \in {"flush", "flush2", "pull"} \cup Outside
       /\ pc = "flush2" => pc' \in {"flush2", "pull"} \cup Outside
       /\ pc = "pull" => pc' \in {"pull", "filter"} \cup Outside
       /\ pc = "filter" => pc' \in {"filter"} \cup Outside
       /\ pc' \in InPull => commands' = <<>> /\ flushRef' = "none"
       /\ (pc = "pull" /\ pc' = "filter") => cycleFilter # Undefined
       /\ (pc = "pull" /\ pc' \in Outside /\ cycleFilter # Undefined) => cacheVars' = cacheVars
       /\ cacheVars' # cacheVars => (pc \in InPull /\ pc' \in Outside) \/ pc = "flush"
       /\ filterLastUsedAt' # filterLastUsedAt => pc \in InPull /\ pc' \in Outside
       /\ (pc \in InFlush /\ pc' \in Outside) =>
             /\ cacheVars' = cacheVars
             /\ tasksById' = tasksById
             /\ queue' = queue
             /\ syncToken' = syncToken]_vars

\* C33 witness: the first cycle, a filter cycle, has flushed a create, applied its
\* mapping, pulled the items and waits for the result of its filter
C33_Witness ==
    /\ pc = "filter"
    /\ syncs = 1
    /\ cycleFilter # Undefined
    /\ idAliasMap # EmptyMap
    /\ lastFullSyncAt > 0

(* --------------------------- SyncManager jobs -------------------------- *)
\* the number of jobs handed to enqueueSync in a behaviour
MaxJobs == 3

\* the methods of SyncManager that hand their body to enqueueSync
JobKinds == {"syncFile", "syncAfterQueue", "syncDownSafe", "primeFileShadows"}

\* the awaits of the body of each, in order
JobSteps(kind) ==
    CASE kind = "syncFile" -> <<"scanAndSyncFile", "syncNow", "syncDown">>
      [] kind = "syncAfterQueue" -> <<"syncNow", "syncDown">>
      [] kind = "syncDownSafe" -> <<"syncDown">>
      [] kind = "primeFileShadows" -> <<"ensureProjects", "read">>

\* a job: at = "waiting" (its run is chained on the promise of the job before it),
\* "running" (suspended in the await number step of its body), "done" (the body
\* returned) or "threw" (the body threw and run caught the error)
Job(kind) == [kind |-> kind, at |-> "waiting", step |-> 0]
Running(job) == job.at = "running"
\* the promise `next` of the job is fulfilled: run never rejects
Settled(job) == job.at \in {"done", "threw"}

\* mutation of ChainSettled: run does not wait for the promise it is chained on
Unchained(j) == TRUE

\* this.syncChain.then(run, run): the run of job j is called when the promise of the
\* job submitted before it has settled (the first is chained on Promise.resolve())
ChainSettled(j) == IF j = 1 THEN TRUE ELSE Settled(jobs[j - 1])

jobFrame == <<storeVars, now, nextOpId, nextLocal, pc, flightVars, syncs, cycleVars, cacheVars,
              note, raw, loaded, remote, head, applied, inbox, remoteEdits, idMappingUpdated>>

\* enqueueSync(fn), called by syncFile, syncAfterQueue, syncDownSafe, primeFileShadows
enqueueSync(kind) ==
    /\ Len(jobs) < MaxJobs
    /\ jobs' = Append(jobs, Job(kind))
    /\ UNCHANGED <<jobFrame, direct>>

\* run is called: the body of job j runs to its first await
RunJob(j) ==
    /\ jobs[j].at = "waiting"
    /\ ChainSettled(j)
    /\ jobs' = [jobs EXCEPT ![j].at = "running", ![j].step = 1]
    /\ UNCHANGED <<jobFrame, direct>>

\* the await the job is suspended in returns: the body runs to its next await, or
\* to its end
JobResumes(j) ==
    /\ Running(jobs[j])
    /\ jobs' = IF jobs[j].step < Len(JobSteps(jobs[j].kind))
               THEN [jobs EXCEPT ![j].step = @ + 1]
               ELSE [jobs EXCEPT ![j].at = "done"]
    /\ UNCHANGED <<jobFrame, direct>>

\* the await the job is suspended in throws: the catch of run logs the error
JobThrows(j) ==
    /\ Running(jobs[j])
    /\ jobs' = [jobs EXCEPT ![j].at = "threw"]
    /\ UNCHANGED <<jobFrame, direct>>

\* the button "Sync now" of the settings calls syncManager.syncDown(file) itself, not
\* through enqueueSync: the call reads the file ...
SettingsSyncDown ==
    /\ direct = "none"
    /\ direct' = "read"
    /\ UNCHANGED <<jobFrame, jobs>>
\* ... and writes it back, or throws
SettingsSyncDownEnds ==
    /\ direct = "read"
    /\ direct' = "none"
    /\ UNCHANGED <<jobFrame, jobs>>

JobStep ==
    \/ \E j \in 1..Len(jobs) : RunJob(j)
    \/ \E j \in 1..Len(jobs) : JobResumes(j)
NextJobs ==
    \/ \E kind \in JobKinds : enqueueSync(kind)
    \/ JobStep
    \/ \E j \in 1..Len(jobs) : JobThrows(j)
    \/ SettingsSyncDown
    \/ SettingsSyncDownEnds
\* every callback of a settled promise is called and every await returns or throws
SpecJobs == Init /\ [][NextJobs]_vars /\ WF_vars(JobStep)

\* C34: at most one of the jobs handed to enqueueSync (the bodies of syncFile,
\* syncAfterQueue, syncDownSafe, primeFileShadows) is running at any time, a job
\* starts only when every job submitted before it has ended, and every submitted job
\* ends, also when jobs before it threw.
C34_JobsSerial ==
    /\ [](\A i, j \in 1..Len(jobs) : (Running(jobs[i]) /\ Running(jobs[j])) => i = j)
    /\ [](\A i, j \in 1..Len(jobs) : (i < j /\ jobs[j].at # "waiting") => Settled(jobs[i]))
    /\ \A n \in 1..MaxJobs : (Len(jobs) >= n) ~> (IF Len(jobs) >= n THEN Settled(jobs[n]) ELSE FALSE)

\* C34 witness: a job threw, the job submitted after it has run to its end and a
\* third one is in its syncDown
C34_Witness ==
    /\ Len(jobs) = 3
    /\ jobs[1].at = "threw"
    /\ jobs[2].at = "done"
    /\ Running(jobs[3]) /\ JobSteps(jobs[3].kind)[jobs[3].step] = "syncDown"

(* ------------------------ ids retired by a mapping ---------------------- *)
\* no key of the shadow map is an aliased id
AliasedKeyFree(shadow, alias) == \A L \in DOMAIN alias : L \notin DOMAIN shadow

\* the lists of ids a cached filter result can hold
IdLists == UNION {[1..n -> Ids] : n \in 0..2}

\* C35: in every state, for every alias L -> N, no list of filterResults contains L
\* and lineShadowById has no entry keyed by L; the rename of a mapping entry leaves
\* L in no list, whatever the list held; no setLineShadow(id, sig) and no
\* moveLineShadow(rawId, resolveTaskId(rawId)) of the scan, for any id, gives the
\* shadow map a key that is an aliased id; and the flush triggers
\* 'id-mapping-updated' when it has handled a response exactly if the response's
\* mapping has an entry.
C35_LocalIdRetired ==
    /\ [](/\ AliasedKeyFree(lineShadowById, idAliasMap)
          /\ \A L \in DOMAIN idAliasMap, f \in DOMAIN filterResults : L \notin Range(filterResults[f])
          /\ \A list \in IdLists, L \in LocalIds, N \in RemoteIds :
                L \notin Range(RenameInFilters([f \in {"today"} |-> list], L, N)["today"])
          /\ \A id \in Ids, sig \in Signatures :
                AliasedKeyFree(SetShadowIn(lineShadowById, idAliasMap, id, sig), idAliasMap)
          /\ \A rawId \in Ids :
                AliasedKeyFree(MoveShadowIn(lineShadowById, idAliasMap, rawId, resolveId(rawId)),
                               idAliasMap))
    /\ [][(pc = "flush" /\ pc' \in {"flush2", "pull"}) =>
             \A r \in FlushResponses(commands) :
                 FlushResponse(r) => (idMappingUpdated' <=> r.temp_id_mapping # EmptyMap)]_vars

\* C35 witness: a mapping has moved the shadow of a scanned line from its local id
\* to the remote id, and the event was triggered
C35_Witness ==
    /\ idMappingUpdated
    /\ \E L \in DOMAIN idAliasMap :
          /\ idAliasMap[L] \in DOMAIN lineShadowById
          /\ L \notin DOMAIN lineShadowById
          /\ note.id = L

(* ------------------------------ alias map ------------------------------ *)
\* pruneIdAliasMap(keepLocalIds), the button "Prune id mappings" of the settings:
\* every alias whose key is not in keep is deleted
pruneIdAliasMap(keep) ==
    /\ idAliasMap' = [l \in (DOMAIN idAliasMap) \cap keep |-> idAliasMap[l]]
    /\ UNCHANGED <<tasksById, queue, lineShadowById, syncToken, lastFullSyncAt, now, nextOpId,
                   nextLocal, pc, flightVars, syncs, cycleVars, cacheVars, note, outerVars>>

\* the service under direct calls, sync cycles and the pruning of the alias map
NextAlias ==
    \/ QueueCalls({"a"}, ProjectIds, {Undefined}, MaxOpIds)
    \/ SyncStep
    \/ \E keep \in SUBSET LocalIds : pruneIdAliasMap(keep)
SpecAlias == Init /\ [][NextAlias]_vars

\* C36: in every state no value of idAliasMap is a key of idAliasMap and
\* resolveId(resolveId(id)) = resolveId(id) for every id; a step that removes an
\* entry of idAliasMap is a call of pruneIdAliasMap.
C36_NoAliasChain ==
    /\ [](\A L \in DOMAIN idAliasMap : idAliasMap[L] \notin DOMAIN idAliasMap)
    /\ [](\A id \in Ids : resolveId(resolveId(id)) = resolveId(id))
    /\ [][(\E L \in DOMAIN idAliasMap : L \notin DOMAIN idAliasMap')
             => \E keep \in SUBSET LocalIds : pruneIdAliasMap(keep)]_vars

\* C36 witness: the local id of a created task has its alias, the record has moved
\* to the remote id, and an op queued since then targets the remote id
C36_Witness ==
    \E L \in DOMAIN idAliasMap, i \in 1..Len(queue) :
        /\ queue[i].type # "create"
        /\ queue[i].id = idAliasMap[L]
        /\ L \notin DOMAIN tasksById
        /\ idAliasMap[L] \in DOMAIN tasksById

\* C37 as stated: in every state, for every alias L -> N, hasPendingOpsForId(L) and
\* hasPendingOpsForId(N) give the same answer.
C37_PendingSameForAlias ==
    \A L \in DOMAIN idAliasMap : hasPendingOpsForId(L) = hasPendingOpsForId(idAliasMap[L])

(* ------------------------- failed flush request ------------------------- *)
\* the commands a flush would build from the store the step leaves
Rebuilt == BuildCommands(queue', idAliasMap', now', 1, EmptyAcc).commands

\* C38: the step in which a request of the flush fails (the cycle ends from a flush
\* position) leaves the queue as it is, op for op, and leaves the cursor, the cached
\* tasks and the aliases alone; every queued op that had a command in the failed
\* request gets the command of its opId again from a flush that starts in the state
\* the failure leaves.
C38_FailureKeepsQueue ==
    [][(pc \in InFlush /\ pc' \in Outside) =>
          /\ queue' = queue
          /\ syncToken' = syncToken
          /\ tasksById' = tasksById
          /\ idAliasMap' = idAliasMap
          /\ pc = "flush" =>
                \A i \in 1..Len(queue) : queue[i].opId \in CommandUuids(commands) =>
                    \E k \in 1..Len(Rebuilt) :
                        /\ Rebuilt[k].uuid = queue[i].opId
                        /\ Rebuilt[k] = CommandOf(queue'[i], idAliasMap')]_vars

\* C38 witness: no response has been handled so far, the first cycle is over and the
\* second one has submitted the create again, under the opId it was queued with
C38_Witness ==
    /\ pc = "flush"
    /\ syncs = 2
    /\ lastFullSyncAt = 0
    /\ Len(queue) = 1 /\ Len(commands) = 1
    /\ queue[1].type = "create" /\ queue[1].opId = 1 /\ queue[1].attempts = 0
    /\ commands[1].uuid = 1

\* the queue holds a create op for the temporary id
CreateQueued(l) == \E i \in 1..Len(queue) : queue[i].type = "create" /\ queue[i].localId = l

\* C39 as stated: in every state reached without clearQueue, every record of tasksById
\* keyed by a temporary id has a create op with that localId in the queue, and every
\* key k of tasksById has tasksById[k].id = k.
C39_LocalRecordHasCreate ==
    /\ \A k \in DOMAIN tasksById : tasksById[k].id = k
    /\ \A k \in DOMAIN tasksById : IsLocalId(k) => CreateQueued(k)

\* the ids of the tasks a filter query returned, as refreshFilterIdsViaRest stores them
IdsOf(list) == [i \in 1..Len(list) |-> list[i].id]
\* the running cycle ends with the response of its last request handled
EndsWell ==
    /\ CycleEnds
    /\ \/ \E r \in PullResponses : PullResponse(r)
       \/ \E list \in FilterTasks : FilterResponse(list)
\* the cycle that ends is scoped to f, and the cache holds the result of its query
PulledAtEnd(f) ==
    /\ cycleFilter = f
    /\ \E list \in FilterTasks :
          /\ FilterResponse(list)
          /\ f \in DOMAIN filterResults'
          /\ filterResults'[f] = IdsOf(list)
\* a call of syncFilterNow(f) holds the promise of the running cycle: the call that
\* began the cycle, or a call coalesced as pending while it ran
HoldsPromise(f) == cycleFilter = f \/ (awaiting >= 1 /\ pendingFilterSync = f)

\* C40 as stated: when the promise handed to a call of syncFilterNow(f) resolves and
\* no request failed, the cycle that ends pulled the result of filter f and
\* filterResults[f] holds it, also for a call coalesced as pending.
C40_PromiseMeansPulled ==
    [][\A f \in Filters : (EndsWell /\ HoldsPromise(f)) => PulledAtEnd(f)]_vars
====
